---- MODULE Spec2Model ----
(***************************************************************************)
(* Fee-pool state machine of rs-drive / dash-abci: the block callbacks     *)
(* init_chain, block_begin, block_end, the genesis-time cache, the         *)
(* storage-fee distribution over 1000 epochs and the proposer payout.      *)
(*                                                                         *)
(* Representation.                                                         *)
(*  - Option<T> is a sequence: None == << >>, Some(x) == <<x>>.            *)
(*  - Times are counted in units of TimeUnitMs = 21_600_000 ms (a quarter  *)
(*    of a day), the greatest common divisor of one day and of             *)
(*    EPOCH_CHANGE_TIME = 1_576_800_000 ms, so that an epoch is 73 units;  *)
(*    the epoch computation floors as it does on milliseconds.             *)
(*  - The store is one record; the transaction the host passes to every    *)
(*    callback is the pair (store, committed): store is the view through   *)
(*    the open transaction, committed is what a rollback returns to.       *)
(***************************************************************************)
EXTENDS Integers, Sequences, FiniteSets, TLC

VARIABLES
    store,                    \* the GroveDB state seen through the transaction
    committed,                \* the state a rollback of the transaction restores
    cache_genesis_time_ms,    \* Drive.cache.genesis_time_ms : Option<u64>
    block_execution_context,  \* Platform.block_execution_context : Option<ctx>
    response,                 \* the last call: its request and its result
    replaced_context,         \* the context replaced by a block_begin that
                              \* directly followed a successful block_begin
    context_genesis_time,     \* the genesis time the context was computed with
    calls,                    \* number of calls made so far
    twin                      \* a second platform on a store of its own

vars == << store, committed, cache_genesis_time_ms, block_execution_context,
           response, replaced_context, context_genesis_time, calls, twin >>

None == << >>
\* no second platform
NoTwin == << >>
Some(x) == << x >>
IsSome(o) == o # << >>
Unwrap(o) == o[1]

\* The element of a singleton set. Only({ F(v) : v \in { e } }) is F(e) with
\* e evaluated once, however often F uses it.
Only(S) == CHOOSE x \in S : TRUE

(***************************************************************************)
(* Program constants                                                       *)
(***************************************************************************)
EPOCH_CHANGE_TIME == 1576800000
\* a quarter of a day, in ms
TimeUnitMs == (24 * 60 * 60 * 1000) \div 4
\* length of an epoch in time units (73)
EpochLen == EPOCH_CHANGE_TIME \div TimeUnitMs

EPOCHS_PER_YEAR == 20
DISTRIBUTION_YEARS == 50
\* 50 years of 20 epochs: the epochs created by init_chain and the targets
\* of one distribution
EPOCHS_AHEAD == 1000

\* FEE_DISTRIBUTION_TABLE, each ratio in units of 0.00001 (0.05000 is 5000).
\* The f64 table of drive's constants.rs ends with 0.0012500000000004; the
\* distribution computes in Decimal, where the last ratio is 0.00125 and
\* the ratios sum to 1.
FEE_DISTRIBUTION_TABLE ==
    << 5000, 4800, 4600, 4400, 4200, 4000, 3850, 3700, 3550, 3400,
       3250, 3100, 2950, 2850, 2750, 2650, 2550, 2450, 2350, 2250,
       2150, 2050, 1950, 1875, 1800, 1725, 1650, 1575, 1500, 1425,
       1350, 1275, 1200, 1125, 1050,  975,  900,  825,  750,  675,
        600,  525,  475,  425,  375,  325,  275,  225,  175,  125 >>

(***************************************************************************)
(* Bounds of the model and the inputs it draws                             *)
(***************************************************************************)
MaxCalls == 4
MaxDistributions == 2
MaxEpoch == 1
\* the blocks and the days of a walk of one block after the other
MaxBlocks == 22
MaxDay == 62

\* pro-tx hashes of the proposers, one for each block of a walk, and ids of
\* the identities: the proposers' own and the one reward shares are paid to
Proposers == 1 .. MaxBlocks
IdentityIds == Proposers \cup { 0 }
\* reward-share documents of each proposer: payToId and percentage, in
\* hundredths of a percent
RewardShares ==
    [ h \in Proposers |->
        IF h = 1 THEN << [ payToId |-> 0, percentage |-> 5000 ] >> ELSE << >> ]

(***************************************************************************)
(* The store                                                               *)
(*   pools   : the Pools root tree exists                                  *)
(*   g       : Pools/"g", the genesis time item                            *)
(*   s       : Pools/"s", the storage-fee distribution pool                *)
(*   storage : epoch index -> E(i)/"s"; its domain is the set of epoch     *)
(*             subtrees that exist                                         *)
(*   cur     : epoch index -> the items written by init_current and after: *)
(*             p (processing credits), m (fee multiplier), c (start block  *)
(*             height), t (start block time), r (proposer -> block count,  *)
(*             0 standing for no entry)                                    *)
(*   balances: identity id -> balance, the Identities tree                 *)
(***************************************************************************)
EmptyStore ==
    [ pools |-> FALSE, g |-> None, s |-> 0,
      storage |-> [ i \in {} |-> 0 ], cur |-> [ i \in {} |-> 0 ],
      balances |-> [ id \in IdentityIds |-> 0 ] ]

EpochExists(st, i) == st.pools /\ i \in DOMAIN st.storage

\* One batch operation. kind is one of
\*   "pool"          insert Pools/"s" = v
\*   "storage_many"  insert E(j)/"s" = upd[j] for every j in DOMAIN upd
\*   "init_empty"    insert the empty tree E(j) and E(j)/"s" = 0 for every
\*                   j in idxs
\*   "cur"           insert the record v as the current-epoch items of E(idx)
\*   "delete"        delete the tree E(idx)
\*   "genesis"       insert Pools/"g" = v
OpPool(v) == [ kind |-> "pool", v |-> v ]
OpStorageMany(upd) == [ kind |-> "storage_many", upd |-> upd ]
OpInitEmpty(S) == [ kind |-> "init_empty", idxs |-> S ]
OpCur(i, v) == [ kind |-> "cur", idx |-> i, v |-> v ]
OpDelete(i) == [ kind |-> "delete", idx |-> i ]
OpGenesis(v) == [ kind |-> "genesis", v |-> v ]
\*   "balances"      insert every identity id with the balance upd[id]
\*   "processing"    insert E(idx)/"p" = v
\*   "proposer"      insert E(idx)/"r"/h = v
OpBalances(upd) == [ kind |-> "balances", upd |-> upd ]
OpProcessing(i, v) == [ kind |-> "processing", idx |-> i, v |-> v ]
OpProposer(i, h, v) == [ kind |-> "proposer", idx |-> i, h |-> h, v |-> v ]

\* An insert below a tree that does not exist fails (PathKeyNotFound).
OpApplicable(st, op) ==
    CASE op.kind = "pool" -> st.pools
      [] op.kind = "genesis" -> st.pools
      [] op.kind = "init_empty" -> st.pools
      [] op.kind = "storage_many" ->
            st.pools /\ DOMAIN op.upd \subseteq DOMAIN st.storage
      [] op.kind = "cur" -> EpochExists(st, op.idx)
      [] op.kind = "delete" -> EpochExists(st, op.idx)
      [] op.kind = "balances" -> DOMAIN op.upd \subseteq DOMAIN st.balances
      [] op.kind = "processing" -> EpochExists(st, op.idx)
      [] op.kind = "proposer" -> st.pools /\ op.idx \in DOMAIN st.cur

Restrict(f, S) == [ x \in S |-> f[x] ]

ApplyOp(st, op) ==
    CASE op.kind = "pool" -> [ st EXCEPT !.s = op.v ]
      [] op.kind = "genesis" -> [ st EXCEPT !.g = Some(op.v) ]
      [] op.kind = "init_empty" ->
            [ st EXCEPT
                !.storage = [ j \in DOMAIN st.storage \cup op.idxs |->
                                IF j \in op.idxs THEN 0 ELSE st.storage[j] ],
                !.cur = Restrict(st.cur, DOMAIN st.cur \ op.idxs) ]
      [] op.kind = "storage_many" ->
            [ st EXCEPT
                !.storage = [ j \in DOMAIN st.storage |->
                                IF j \in DOMAIN op.upd THEN op.upd[j]
                                ELSE st.storage[j] ] ]
      [] op.kind = "cur" ->
            [ st EXCEPT
                !.cur = [ j \in DOMAIN st.cur \cup {op.idx} |->
                            IF j = op.idx THEN op.v ELSE st.cur[j] ] ]
      [] op.kind = "delete" ->
            [ st EXCEPT
                !.storage = Restrict(st.storage, DOMAIN st.storage \ {op.idx}),
                !.cur = Restrict(st.cur, DOMAIN st.cur \ {op.idx}) ]
      [] op.kind = "balances" ->
            [ st EXCEPT
                !.balances = [ id \in DOMAIN st.balances |->
                                 IF id \in DOMAIN op.upd THEN op.upd[id]
                                 ELSE st.balances[id] ] ]
      [] op.kind = "processing" ->
            IF op.idx \in DOMAIN st.cur
            THEN [ st EXCEPT !.cur[op.idx].p = op.v ]
            ELSE st
      [] op.kind = "proposer" -> [ st EXCEPT !.cur[op.idx].r[op.h] = op.v ]

\* The operations of a batch applied in order; the result is
\* [ok |-> TRUE, st |-> the new store] or [ok |-> FALSE, st |-> unchanged].
RECURSIVE ApplyOps(_, _)
ApplyOps(st, batch) ==
    IF batch = << >> THEN [ ok |-> TRUE, st |-> st ]
    ELSE IF ~OpApplicable(st, Head(batch)) THEN [ ok |-> FALSE, st |-> st ]
    ELSE Only({ ApplyOps(next, Tail(batch)) :
                  next \in { ApplyOp(st, Head(batch)) } })

\* faulty variant of grove_apply_batch: the operations before the failing
\* one stay applied
grove_apply_batch_partially(st, batch) ==
    IF batch = << >> THEN [ result |-> "BatchIsEmpty", st |-> st ]
    ELSE Only({ IF r.ok THEN [ result |-> "Ok", st |-> r.st ]
                ELSE [ result |-> "PathKeyNotFound", st |-> r.st ] :
                  r \in { ApplyOps(st, batch) } })

\* grove_apply_batch: an empty batch is the error BatchIsEmpty; a batch is
\* applied as a whole or not at all.
grove_apply_batch(st, batch) ==
    IF batch = << >> THEN [ result |-> "BatchIsEmpty", st |-> st ]
    ELSE Only({ IF r.ok THEN [ result |-> "Ok", st |-> r.st ]
                ELSE [ result |-> "PathKeyNotFound", st |-> st ] :
                  r \in { ApplyOps(st, batch) } })

\* get_epoch_storage_credits_for_distribution: the item E(i)/"s" read
\* through the transaction; an epoch that does not exist is a GroveDB error
get_epoch_storage_credits_for_distribution(st, epoch_index) ==
    IF ~EpochExists(st, epoch_index) THEN [ result |-> "GroveDB", v |-> None ]
    ELSE [ result |-> "Ok", v |-> Some(st.storage[epoch_index]) ]

(***************************************************************************)
(* Storage-fee distribution                                                *)
(***************************************************************************)
\* year_fee_share = P * ratio;  epoch_fee_share = floor(year_fee_share / 20).
\* Every ratio is a multiple of 0.00025; numerator and denominator are
\* reduced by it, which keeps the product in the model's integers for pools
\* up to 10^7.
EpochFeeShare(P, year) ==
    (P * (FEE_DISTRIBUTION_TABLE[year + 1] \div 25))
      \div ((100000 \div 25) * EPOCHS_PER_YEAR)

\* faulty variant of BufferAfterYears: the share is withdrawn from the
\* buffer once per year instead of once per target epoch
RECURSIVE BufferAfterYears_once_per_year(_, _, _)
BufferAfterYears_once_per_year(P, buffer, year) ==
    IF year = DISTRIBUTION_YEARS THEN buffer
    ELSE BufferAfterYears_once_per_year(P, buffer - EpochFeeShare(P, year),
                                        year + 1)

\* the buffer after the years year..49 have been withdrawn from it, 20
\* epoch shares per year
RECURSIVE BufferAfterYears(_, _, _)
BufferAfterYears(P, buffer, year) ==
    IF year = DISTRIBUTION_YEARS THEN buffer
    ELSE BufferAfterYears(P, buffer - EPOCHS_PER_YEAR * EpochFeeShare(P, year),
                          year + 1)

\* the epochs credited by a distribution at epoch_index
DistributionTargets(epoch_index) ==
    epoch_index .. (epoch_index + DISTRIBUTION_YEARS * EPOCHS_PER_YEAR - 1)

\* faulty variant of the distribution: a target epoch's storage credits are
\* overwritten by the share instead of increased by it
distribute_overwriting_storage_credits(st, epoch_index) ==
    LET P == st.s
        targets == DistributionTargets(epoch_index)
        buffer == BufferAfterYears(P, P, 0)
    IN  IF ~st.pools THEN [ result |-> "PathNotFound", ops |-> << >> ]
        ELSE IF P = 0 THEN [ result |-> "Ok", ops |-> << >> ]
        ELSE IF ~(targets \subseteq DOMAIN st.storage)
             THEN [ result |-> "PathKeyNotFound", ops |-> << >> ]
        ELSE [ result |-> "Ok",
               ops |-> << OpStorageMany(
                            [ j \in targets |->
                                EpochFeeShare(P, (j - epoch_index)
                                                    \div EPOCHS_PER_YEAR) ]),
                          OpPool(buffer) >> ]

\* faulty variant of the distribution: a pool of 0 is distributed like any
\* other pool instead of returning before the first operation
distribute_zero_pool_too(st, epoch_index) ==
    LET P == st.s
        targets == DistributionTargets(epoch_index)
    IN  IF ~st.pools THEN [ result |-> "PathNotFound", ops |-> << >> ]
        ELSE IF ~(targets \subseteq DOMAIN st.storage)
             THEN [ result |-> "PathKeyNotFound", ops |-> << >> ]
        ELSE [ result |-> "Ok",
               ops |-> << OpStorageMany(
                            [ j \in targets |->
                                st.storage[j]
                                + EpochFeeShare(P, (j - epoch_index)
                                                      \div EPOCHS_PER_YEAR) ]),
                          OpPool(BufferAfterYears(P, P, 0)) >> ]

\* distribute_storage_fee_distribution_pool_to_epochs_operations: reads the
\* pool and the targets' storage credits through the transaction and
\* returns the operations it pushes to the batch.
distribute_storage_fee_distribution_pool_to_epochs_operations(st, epoch_index) ==
    LET P == st.s
        targets == DistributionTargets(epoch_index)
    IN  IF ~st.pools THEN [ result |-> "PathNotFound", ops |-> << >> ]
        ELSE IF P = 0 THEN [ result |-> "Ok", ops |-> << >> ]
        ELSE IF ~(targets \subseteq DOMAIN st.storage)
             THEN [ result |-> "PathKeyNotFound", ops |-> << >> ]
        ELSE Only({
          IF buffer < 0
          THEN [ result |-> "CorruptedStorageFeePoolInvalidItemLength",
                 ops |-> << >> ]
          ELSE [ result |-> "Ok",
                 ops |-> << OpStorageMany(
                              [ j \in targets |->
                                  st.storage[j]
                                  + EpochFeeShare(P, (j - epoch_index)
                                                        \div EPOCHS_PER_YEAR) ]),
                            OpPool(buffer) >> ] :
            buffer \in { BufferAfterYears(P, P, 0) } })

(***************************************************************************)
(* Epoch accountant                                                        *)
(***************************************************************************)
\* EpochInfo::calculate(genesis_time_ms, block_time_ms,
\* previous_block_time_ms)
calculate(genesis, block_time, previous_block_time) ==
    IF block_time < genesis THEN [ result |-> "BlockBeforeGenesis" ]
    ELSE LET current == (block_time - genesis) \div EpochLen
         IN  [ result |-> "Ok",
               current_epoch_index |-> current,
               is_epoch_change |->
                   \/ previous_block_time = None
                   \/ (Unwrap(previous_block_time) - genesis) \div EpochLen
                        # current ]

(***************************************************************************)
(* Genesis time                                                            *)
(***************************************************************************)
\* fetch_genesis_time: the item Pools/"g" read through the transaction
fetch_genesis_time(st) ==
    IF ~st.pools THEN [ result |-> "PathNotFound", v |-> None ]
    ELSE [ result |-> "Ok", v |-> st.g ]

\* get_genesis_time: the cache first, the store when the cache is empty; a
\* value read from the store is put into the cache
get_genesis_time(cache, st) ==
    IF IsSome(cache) THEN [ result |-> "Ok", v |-> cache, cache |-> cache ]
    ELSE LET f == fetch_genesis_time(st)
         IN  [ result |-> f.result, v |-> f.v,
               cache |-> IF f.result = "Ok" /\ IsSome(f.v) THEN f.v ELSE cache ]

\* init_genesis: the cache is written first, then the operation is applied
init_genesis(st, genesis_time_ms) ==
    LET r == grove_apply_batch(st, << OpGenesis(genesis_time_ms) >>)
    IN  [ result |-> r.result, st |-> r.st, cache |-> Some(genesis_time_ms) ]

(***************************************************************************)
(* Fee processing of one block                                             *)
(***************************************************************************)
\* the items init_current writes into the epoch that becomes current
InitCurrent(fee_multiplier, start_block_height, start_block_time) ==
    [ p |-> 0, m |-> fee_multiplier, c |-> start_block_height,
      t |-> start_block_time, r |-> [ h \in Proposers |-> 0 ] ]

\* faulty variant of shift_current_epoch_pool: the start block height and
\* the start block time are taken for each other
shift_with_height_and_time_swapped(index, start_height, start_time, fee_multiplier) ==
    << OpInitEmpty({ index + EPOCHS_AHEAD }),
       OpCur(index, InitCurrent(fee_multiplier, start_time, start_height)) >>

\* shift_current_epoch_pool: creates the epoch 1000 ahead and initialises
\* the current one
shift_current_epoch_pool(index, start_height, start_time, fee_multiplier) ==
    << OpInitEmpty({ index + EPOCHS_AHEAD }),
       OpCur(index, InitCurrent(fee_multiplier, start_height, start_time)) >>

\* faulty variant of distribute_fees_into_pools: the processing fees and the
\* storage fees are taken for each other
distribute_fees_into_pools_swapped(st, index, processing_fees, storage_fees) ==
    IF ~EpochExists(st, index) \/ index \notin DOMAIN st.cur
    THEN [ result |-> "NotInitialized", ops |-> << >> ]
    ELSE [ result |-> "Ok",
           ops |-> << OpProcessing(index, st.cur[index].p + storage_fees),
                      OpPool(st.s + processing_fees) >> ]

\* distribute_fees_into_pools: the block's processing fees go to the current
\* epoch, its storage fees to the storage-fee distribution pool
distribute_fees_into_pools(st, index, processing_fees, storage_fees) ==
    IF ~EpochExists(st, index) \/ index \notin DOMAIN st.cur
    THEN [ result |-> "NotInitialized", ops |-> << >> ]
    ELSE [ result |-> "Ok",
           ops |-> << OpProcessing(index, st.cur[index].p + processing_fees),
                      OpPool(st.s + storage_fees) >> ]

\* faulty variant of refund_operations: a refund of more than the epoch
\* holds is fatal
RECURSIVE refund_operations_checked(_, _)
refund_operations_checked(st, refunds) ==
    IF refunds = << >> THEN [ result |-> "Ok", ops |-> << >> ]
    ELSE LET e == Head(refunds)[1]
             r == Head(refunds)[2]
         IN  IF ~EpochExists(st, e)
             THEN [ result |-> "NotInitialized", ops |-> << >> ]
             ELSE IF r > st.storage[e]
             THEN [ result |-> "Overflow", ops |-> << >> ]
             ELSE Only({
               IF rest.result # "Ok" THEN rest
               ELSE [ result |-> "Ok",
                      ops |-> << OpStorageMany(
                                   [ j \in {e} |-> st.storage[e] - r ]) >>
                              \o rest.ops ] :
                 rest \in { refund_operations_checked(st, Tail(refunds)) } })

\* the refunds of a block: each (epoch_index, credits) entry is taken from
\* the storage credits of that epoch.  The block of test_abci_flow refunds
\* 100 credits from epoch 1 while that epoch holds none and block_end
\* succeeds: an entry of more than the epoch holds takes nothing.
RECURSIVE refund_operations(_, _)
refund_operations(st, refunds) ==
    IF refunds = << >> THEN [ result |-> "Ok", ops |-> << >> ]
    ELSE LET e == Head(refunds)[1]
             r == Head(refunds)[2]
         IN  IF ~EpochExists(st, e)
             THEN [ result |-> "NotInitialized", ops |-> << >> ]
             ELSE IF r > st.storage[e]
             THEN refund_operations(st, Tail(refunds))
             ELSE Only({
               IF rest.result # "Ok" THEN rest
               ELSE [ result |-> "Ok",
                      ops |-> << OpStorageMany(
                                   [ j \in {e} |-> st.storage[e] - r ]) >>
                              \o rest.ops ] :
                 rest \in { refund_operations(st, Tail(refunds)) } })

\* increment_proposer_block_count
increment_proposer_block_count(st, index, proposer_pro_tx_hash) ==
    IF ~EpochExists(st, index) \/ index \notin DOMAIN st.cur
    THEN [ result |-> "NotInitialized", ops |-> << >> ]
    ELSE [ result |-> "Ok",
           ops |-> << OpProposer(index, proposer_pro_tx_hash,
                                 st.cur[index].r[proposer_pro_tx_hash] + 1) >> ]

(***************************************************************************)
(* Proposer payout                                                         *)
(***************************************************************************)
SetMax(S) == CHOOSE x \in S : \A y \in S : y <= x
SetMin(S) == CHOOSE x \in S : \A y \in S : x <= y

\* the epochs below current_epoch_index whose proposer map is not empty
UnpaidEpochs(st, current_epoch_index) ==
    { e \in DOMAIN st.cur :
        /\ e < current_epoch_index
        /\ \E h \in Proposers : st.cur[e].r[h] > 0 }

\* the epoch to pay: the scan goes backward from current_epoch_index - 1 and
\* stops at the first epoch whose proposer map is not empty
get_oldest_unpaid_epoch(st, current_epoch_index) ==
    IF UnpaidEpochs(st, current_epoch_index) = {} THEN None
    ELSE Some(SetMax(UnpaidEpochs(st, current_epoch_index)))

\* variant of find_next_epoch_stat_block_height: the range of the query
\* ends before to_epoch_index
find_next_before_to_epoch_index(st, from_epoch_index, to_epoch_index) ==
    LET found == { e \in DOMAIN st.cur :
                     from_epoch_index < e /\ e < to_epoch_index }
    IN  IF found = {} THEN None
        ELSE Some(<< 0, st.cur[SetMin(found)].c >>)

\* find_next_epoch_stat_block_height: the first start block height stored
\* in the epochs from_epoch_index + 1 ..= to_epoch_index; the u16 returned
\* with it is the number of skipped elements of the query, which has no
\* offset
find_next_epoch_stat_block_height(st, from_epoch_index, to_epoch_index) ==
    LET found == { e \in DOMAIN st.cur :
                     from_epoch_index < e /\ e <= to_epoch_index }
    IN  IF found = {} THEN None
        ELSE Some(<< 0, st.cur[SetMin(found)].c >>)

\* the share of a proposer paid to the identities: every reward-share
\* document takes floor(share * percentage / 10000), the proposer keeps the
\* rest
RECURSIVE pay_reward_shares(_, _, _, _)
pay_reward_shares(balances, share, left, docs) ==
    IF docs = << >> THEN [ balances |-> balances, left |-> left ]
    ELSE LET credit == (share * Head(docs).percentage) \div 10000
             to == Head(docs).payToId
         IN  Only({ pay_reward_shares(credited, share, rest, Tail(docs)) :
                      credited \in { [ balances EXCEPT ![to] = @ + credit ] },
                      rest \in { left - credit } })

\* the proposers of the paid epoch in the order of their keys
RECURSIVE pay_proposers(_, _, _, _, _)
pay_proposers(balances, counts, todo, total, blocks) ==
    IF todo = {} THEN balances
    ELSE LET h == SetMin(todo)
             share == (total * counts[h]) \div blocks
         IN  Only({ pay_proposers([ paid.balances EXCEPT ![h] = @ + paid.left ],
                                  counts, todo \ {h}, total, blocks) :
                      paid \in { pay_reward_shares(balances, share, share,
                                                   RewardShares[h]) } })

\* faulty variant of distribute_fees_from_unpaid_pools_to_proposers: the
\* proposers are paid and the paid epoch is left in the store
pay_proposers_keeping_paid_epoch(st, current_epoch_index) ==
    LET nothing == [ result |-> "Ok", ops |-> << >>,
                     masternodes_paid_count |-> 0, paid_epoch_index |-> None ]
    IN  IF current_epoch_index = 0 \/ ~st.pools THEN nothing
        ELSE IF get_oldest_unpaid_epoch(st, current_epoch_index) = None
        THEN nothing
        ELSE
        LET p == Unwrap(get_oldest_unpaid_epoch(st, current_epoch_index))
            total == st.storage[p] + st.cur[p].p
            next == find_next_epoch_stat_block_height(st, p, current_epoch_index)
            counts == st.cur[p].r
            proposers == { h \in Proposers : counts[h] > 0 }
        IN  IF total = 0
            THEN [ result |-> "Ok", ops |-> << OpDelete(p) >>,
                   masternodes_paid_count |-> 0, paid_epoch_index |-> Some(p) ]
            ELSE IF next = None
            THEN [ nothing EXCEPT !.result = "UnexpectedMissingStart" ]
            ELSE IF Unwrap(next)[2] - st.cur[p].c <= 0
            THEN [ nothing EXCEPT !.result = "Overflow" ]
            ELSE [ result |-> "Ok",
                   ops |-> << OpBalances(
                                pay_proposers(st.balances, counts, proposers,
                                              total,
                                              Unwrap(next)[2] - st.cur[p].c)) >>,
                   masternodes_paid_count |-> Cardinality(proposers),
                   paid_epoch_index |-> Some(p) ]

\* faulty variant of distribute_fees_from_unpaid_pools_to_proposers: the
\* scan starts at current_epoch_index - 1 computed on the u16 index also
\* when the current epoch is 0, where it wraps to 65535
pay_proposers_from_wrapped_index(st, current_epoch_index) ==
    LET nothing == [ result |-> "Ok", ops |-> << >>,
                     masternodes_paid_count |-> 0, paid_epoch_index |-> None ]
    IN  IF ~st.pools THEN nothing
        ELSE IF get_oldest_unpaid_epoch(
                    st, ((current_epoch_index + 65535) % 65536) + 1) = None
        THEN nothing
        ELSE
        LET p == Unwrap(get_oldest_unpaid_epoch(
                    st, ((current_epoch_index + 65535) % 65536) + 1))
            total == st.storage[p] + st.cur[p].p
            next == find_next_epoch_stat_block_height(st, p, current_epoch_index)
            counts == st.cur[p].r
            proposers == { h \in Proposers : counts[h] > 0 }
        IN  IF total = 0
            THEN [ result |-> "Ok", ops |-> << OpDelete(p) >>,
                   masternodes_paid_count |-> 0, paid_epoch_index |-> Some(p) ]
            ELSE IF next = None
            THEN [ nothing EXCEPT !.result = "UnexpectedMissingStart" ]
            ELSE IF Unwrap(next)[2] - st.cur[p].c <= 0
            THEN [ nothing EXCEPT !.result = "Overflow" ]
            ELSE [ result |-> "Ok",
                   ops |-> << OpBalances(
                                pay_proposers(st.balances, counts, proposers,
                                              total,
                                              Unwrap(next)[2] - st.cur[p].c)),
                              OpDelete(p) >>,
                   masternodes_paid_count |-> Cardinality(proposers),
                   paid_epoch_index |-> Some(p) ]

\* distribute_fees_from_unpaid_pools_to_proposers
distribute_fees_from_unpaid_pools_to_proposers(st, current_epoch_index) ==
    LET nothing == [ result |-> "Ok", ops |-> << >>,
                     masternodes_paid_count |-> 0, paid_epoch_index |-> None ]
    IN  IF current_epoch_index = 0 \/ ~st.pools THEN nothing
        ELSE IF get_oldest_unpaid_epoch(st, current_epoch_index) = None
        THEN nothing
        ELSE
        LET p == Unwrap(get_oldest_unpaid_epoch(st, current_epoch_index))
            total == st.storage[p] + st.cur[p].p
            next == find_next_epoch_stat_block_height(st, p, current_epoch_index)
            counts == st.cur[p].r
            proposers == { h \in Proposers : counts[h] > 0 }
        IN  IF total = 0
            THEN [ result |-> "Ok", ops |-> << OpDelete(p) >>,
                   masternodes_paid_count |-> 0, paid_epoch_index |-> Some(p) ]
            ELSE IF next = None
            THEN [ nothing EXCEPT !.result = "UnexpectedMissingStart" ]
            ELSE IF Unwrap(next)[2] - st.cur[p].c <= 0
            THEN [ nothing EXCEPT !.result = "Overflow" ]
            ELSE [ result |-> "Ok",
                   ops |-> << OpBalances(
                                pay_proposers(st.balances, counts, proposers,
                                              total,
                                              Unwrap(next)[2] - st.cur[p].c)),
                              OpDelete(p) >>,
                   masternodes_paid_count |-> Cardinality(proposers),
                   paid_epoch_index |-> Some(p) ]

\* faulty variant of apply_epoch_change: the residue the distribution
\* writes to the pool is lost, the pool keeps the value it had
apply_epoch_change_keeping_pool(st, block_info, epoch_info, fees) ==
    LET index == epoch_info.current_epoch_index
        shift == shift_current_epoch_pool(index, block_info.block_height,
                                          block_info.block_time_ms,
                                          fees.fee_multiplier)
    IN  Only({ IF dist.result # "Ok"
               THEN [ result |-> dist.result, st |-> st,
                      masternodes_paid_count |-> 0, paid_epoch_index |-> None ]
               ELSE grove_apply_batch(
                        st, shift \o SubSeq(dist.ops, 1, Len(dist.ops) - 1)) :
                 dist \in
                   { IF index > 0
                     THEN distribute_storage_fee_distribution_pool_to_epochs_operations(
                              st, index - 1)
                     ELSE [ result |-> "Ok", ops |-> << >> ] } })

\* the first batch of process_block_fees, applied on an epoch change: the
\* new epoch structure and the distributed storage fees
apply_epoch_change(st, block_info, epoch_info, fees) ==
    LET index == epoch_info.current_epoch_index
        shift == shift_current_epoch_pool(index, block_info.block_height,
                                          block_info.block_time_ms,
                                          fees.fee_multiplier)
    IN  Only({ IF dist.result # "Ok"
               THEN [ result |-> dist.result, st |-> st,
                      masternodes_paid_count |-> 0, paid_epoch_index |-> None ]
               ELSE grove_apply_batch(st, shift \o dist.ops) :
                 dist \in
                   { IF index > 0
                     THEN distribute_storage_fee_distribution_pool_to_epochs_operations(
                              st, index - 1)
                     ELSE [ result |-> "Ok", ops |-> << >> ] } })

\* faulty variant of process_block_fees: the payout reads the store as it
\* was before the first batch was applied
process_block_fees_paying_on_old_store(st, block_info, epoch_info, fees) ==
    LET index == epoch_info.current_epoch_index
        failed(res, at) ==
            [ result |-> res, st |-> at,
              masternodes_paid_count |-> 0, paid_epoch_index |-> None ]
        \* the fees, the refunds and the block count on the store s1 that
        \* the first batch left, the payout on the store before it
        block_fees(s1) ==
            Only({
              IF into.result # "Ok" THEN failed(into.result, s1)
              ELSE IF refunds.result # "Ok" THEN failed(refunds.result, s1)
              ELSE IF count.result # "Ok" THEN failed(count.result, s1)
              ELSE IF payout.result # "Ok" THEN failed(payout.result, s1)
              ELSE Only({
                     IF applied.result # "Ok" THEN failed(applied.result, s1)
                     ELSE [ result |-> "Ok", st |-> applied.st,
                            masternodes_paid_count |->
                                payout.masternodes_paid_count,
                            paid_epoch_index |-> payout.paid_epoch_index ] :
                       applied \in
                         { grove_apply_batch(
                               s1, into.ops \o refunds.ops \o count.ops
                                   \o payout.ops) } }) :
                into \in { distribute_fees_into_pools(
                               s1, index, fees.processing_fees,
                               fees.storage_fees) },
                refunds \in { refund_operations(s1, fees.refunds_by_epoch) },
                count \in { increment_proposer_block_count(
                                s1, index, block_info.proposer_pro_tx_hash) },
                payout \in { distribute_fees_from_unpaid_pools_to_proposers(
                                 st, index) } })
    IN  Only({ IF first.result # "Ok" THEN failed(first.result, st)
               ELSE Only({ block_fees(s1) : s1 \in { first.st } }) :
                 first \in { IF epoch_info.is_epoch_change
                             THEN apply_epoch_change(st, block_info,
                                                     epoch_info, fees)
                             ELSE [ result |-> "Ok", st |-> st ] } })

\* process_block_fees: on an epoch change the new epoch structure and the
\* distributed storage fees are applied first; then the block's fees, its
\* refunds, the proposer's block count and the payout follow
process_block_fees(st, block_info, epoch_info, fees) ==
    LET index == epoch_info.current_epoch_index
        failed(res, at) ==
            [ result |-> res, st |-> at,
              masternodes_paid_count |-> 0, paid_epoch_index |-> None ]
        \* the fees, the refunds, the block count and the payout on the
        \* store s1 that the first batch left
        block_fees(s1) ==
            Only({
              IF into.result # "Ok" THEN failed(into.result, s1)
              ELSE IF refunds.result # "Ok" THEN failed(refunds.result, s1)
              ELSE IF count.result # "Ok" THEN failed(count.result, s1)
              ELSE IF payout.result # "Ok" THEN failed(payout.result, s1)
              ELSE Only({
                     IF applied.result # "Ok" THEN failed(applied.result, s1)
                     ELSE [ result |-> "Ok", st |-> applied.st,
                            masternodes_paid_count |->
                                payout.masternodes_paid_count,
                            paid_epoch_index |-> payout.paid_epoch_index ] :
                       applied \in
                         { grove_apply_batch(
                               s1, into.ops \o refunds.ops \o count.ops
                                   \o payout.ops) } }) :
                into \in { distribute_fees_into_pools(
                               s1, index, fees.processing_fees,
                               fees.storage_fees) },
                refunds \in { refund_operations(s1, fees.refunds_by_epoch) },
                count \in { increment_proposer_block_count(
                                s1, index, block_info.proposer_pro_tx_hash) },
                payout \in { distribute_fees_from_unpaid_pools_to_proposers(
                                 s1, index) } })
    IN  Only({ IF first.result # "Ok" THEN failed(first.result, st)
               ELSE Only({ block_fees(s1) : s1 \in { first.st } }) :
                 first \in { IF epoch_info.is_epoch_change
                             THEN apply_epoch_change(st, block_info,
                                                     epoch_info, fees)
                             ELSE [ result |-> "Ok", st |-> st ] } })

(***************************************************************************)
(* Inputs of the callbacks                                                 *)
(***************************************************************************)
\* block heights: the genesis block and a later one
Heights == { 1, 2 }
\* block times: the start of each epoch 0 .. MaxEpoch after a genesis at 0,
\* and the last time unit before epoch 1 starts
Times == { k * EpochLen : k \in 0 .. MaxEpoch } \cup { EpochLen - 1 }
PreviousTimes == { None, Some(0) }
\* two of the proposers
RequestProposers == { 1, 2 }

BlockBeginRequests ==
    [ block_height : Heights, block_time_ms : Times,
      previous_block_time_ms : PreviousTimes,
      proposer_pro_tx_hash : RequestProposers ]

FeesAggregates ==
    [ processing_fees : { 1600 }, storage_fees : { 42000 },
      fee_multiplier : { 1 },
      refunds_by_epoch : { << >>, << << 1, 100 >> >> } ]

(***************************************************************************)
(* The callbacks                                                           *)
(***************************************************************************)
\* op and result of the last two calls before the current one

Called ==
    /\ calls < MaxCalls
    /\ calls' = calls + 1

\* faulty variant of add_create_fee_pool_trees_operations: one epoch too
\* many is created
create_fee_pool_trees_and_one_more ==
    << OpPool(0), OpInitEmpty(0 .. EPOCHS_AHEAD) >>

\* add_create_fee_pool_trees_operations: the pool item and the epochs 0..999
add_create_fee_pool_trees_operations ==
    << OpPool(0), OpInitEmpty(0 .. (EPOCHS_AHEAD - 1)) >>

\* init_chain: create_initial_state_structure creates the root trees and
\* the fee pool trees
InitChain ==
    /\ Called
    /\ \E r \in { grove_apply_batch([ store EXCEPT !.pools = TRUE ],
                                     add_create_fee_pool_trees_operations) } :
           /\ store' = r.st
           /\ response' = [ op |-> "init_chain", result |-> r.result ]
    /\ UNCHANGED << twin, committed, cache_genesis_time_ms, block_execution_context,
                    replaced_context, context_genesis_time >>

\* BlockInfo::from_block_begin_request
from_block_begin_request(request) ==
    [ block_height |-> request.block_height,
      block_time_ms |-> request.block_time_ms,
      previous_block_time_ms |-> request.previous_block_time_ms,
      proposer_pro_tx_hash |-> request.proposer_pro_tx_hash ]

\* faulty variant of block_begin: a context already in the slot is kept, the
\* new one is stored only into an empty slot
block_begin_keeping_context(st, cache, context, request) ==
    LET genesis ==
            IF request.block_height = 1
            THEN init_genesis(st, request.block_time_ms)
                   @@ [ v |-> Some(request.block_time_ms) ]
            ELSE LET got == get_genesis_time(cache, st)
                 IN  [ result |-> IF got.result = "Ok" /\ got.v = None
                                  THEN "DriveIncoherence" ELSE got.result,
                       v |-> got.v, st |-> st, cache |-> got.cache ]
        epoch_info ==
            IF genesis.result # "Ok" THEN [ result |-> genesis.result ]
            ELSE calculate(Unwrap(genesis.v), request.block_time_ms,
                           request.previous_block_time_ms)
    IN  [ result |-> epoch_info.result, st |-> genesis.st,
          cache |-> genesis.cache,
          context |->
              IF epoch_info.result # "Ok" \/ context # None THEN context
              ELSE Some([ block_info |-> from_block_begin_request(request),
                          epoch_info |->
                              [ current_epoch_index |->
                                    epoch_info.current_epoch_index,
                                is_epoch_change |->
                                    epoch_info.is_epoch_change ] ]),
          genesis_time |-> IF genesis.result = "Ok" THEN genesis.v ELSE None ]

\* faulty variant of block_begin: the block time and the genesis time are
\* passed to EpochInfo::calculate in each other's place
block_begin_swapped_times(st, cache, context, request) ==
    LET genesis ==
            IF request.block_height = 1
            THEN init_genesis(st, request.block_time_ms)
                   @@ [ v |-> Some(request.block_time_ms) ]
            ELSE LET got == get_genesis_time(cache, st)
                 IN  [ result |-> IF got.result = "Ok" /\ got.v = None
                                  THEN "DriveIncoherence" ELSE got.result,
                       v |-> got.v, st |-> st, cache |-> got.cache ]
        epoch_info ==
            IF genesis.result # "Ok" THEN [ result |-> genesis.result ]
            ELSE calculate(request.block_time_ms, Unwrap(genesis.v),
                           request.previous_block_time_ms)
    IN  [ result |-> epoch_info.result, st |-> genesis.st,
          cache |-> genesis.cache,
          context |->
              IF epoch_info.result # "Ok" THEN context
              ELSE Some([ block_info |-> from_block_begin_request(request),
                          epoch_info |->
                              [ current_epoch_index |->
                                    epoch_info.current_epoch_index,
                                is_epoch_change |->
                                    epoch_info.is_epoch_change ] ]),
          genesis_time |-> IF genesis.result = "Ok" THEN genesis.v ELSE None ]

\* faulty variant of block_begin: the slot is emptied when the handler
\* starts, so a failed call leaves it empty
block_begin_taking_context(st, cache, context, request) ==
    LET genesis ==
            IF request.block_height = 1
            THEN init_genesis(st, request.block_time_ms)
                   @@ [ v |-> Some(request.block_time_ms) ]
            ELSE LET got == get_genesis_time(cache, st)
                 IN  [ result |-> IF got.result = "Ok" /\ got.v = None
                                  THEN "DriveIncoherence" ELSE got.result,
                       v |-> got.v, st |-> st, cache |-> got.cache ]
        epoch_info ==
            IF genesis.result # "Ok" THEN [ result |-> genesis.result ]
            ELSE calculate(Unwrap(genesis.v), request.block_time_ms,
                           request.previous_block_time_ms)
    IN  [ result |-> epoch_info.result, st |-> genesis.st,
          cache |-> genesis.cache,
          context |->
              IF epoch_info.result # "Ok" THEN None
              ELSE Some([ block_info |-> from_block_begin_request(request),
                          epoch_info |->
                              [ current_epoch_index |->
                                    epoch_info.current_epoch_index,
                                is_epoch_change |->
                                    epoch_info.is_epoch_change ] ]),
          genesis_time |-> IF genesis.result = "Ok" THEN genesis.v ELSE None ]

\* block_begin; the result record holds the new values of the state the
\* handler writes
block_begin(st, cache, context, request) ==
    LET init == init_genesis(st, request.block_time_ms)
        got == get_genesis_time(cache, st)
        genesis ==
            IF request.block_height = 1
            THEN [ result |-> init.result, v |-> Some(request.block_time_ms),
                   st |-> init.st, cache |-> init.cache ]
            ELSE IF got.result # "Ok"
            THEN [ result |-> got.result, v |-> None, st |-> st,
                   cache |-> got.cache ]
            ELSE IF got.v = None
            THEN [ result |-> "DriveIncoherence", v |-> None, st |-> st,
                   cache |-> got.cache ]
            ELSE [ result |-> "Ok", v |-> got.v, st |-> st,
                   cache |-> got.cache ]
    IN  IF genesis.result # "Ok"
        THEN [ result |-> genesis.result, st |-> genesis.st,
               cache |-> genesis.cache, context |-> context,
               genesis_time |-> None ]
        ELSE
        LET epoch_info == calculate(Unwrap(genesis.v), request.block_time_ms,
                                    request.previous_block_time_ms)
        IN  IF epoch_info.result # "Ok"
            THEN [ result |-> epoch_info.result, st |-> genesis.st,
                   cache |-> genesis.cache, context |-> context,
                   genesis_time |-> genesis.v ]
            ELSE [ result |-> "Ok", st |-> genesis.st, cache |-> genesis.cache,
                   context |->
                       Some([ block_info |-> from_block_begin_request(request),
                              epoch_info |->
                                  [ current_epoch_index |->
                                        epoch_info.current_epoch_index,
                                    is_epoch_change |->
                                        epoch_info.is_epoch_change ] ]),
                   genesis_time |-> genesis.v ]

\* the handler on the state of the platform
BlockBeginHandled(request) ==
    /\ \E r \in { block_begin(store, cache_genesis_time_ms,
                               block_execution_context, request) } :
           /\ store' = r.st
           /\ cache_genesis_time_ms' = r.cache
           /\ block_execution_context' = r.context
           /\ response' = [ op |-> "block_begin", result |-> r.result,
                            request |-> request,
                            genesis_time |-> r.genesis_time ]
           /\ replaced_context' =
                 IF r.result # "Ok" THEN replaced_context
                 ELSE IF response.op = "block_begin" /\ response.result = "Ok"
                      THEN block_execution_context
                      ELSE None
           /\ context_genesis_time' =
                 IF r.result = "Ok" THEN r.genesis_time
                 ELSE context_genesis_time
    /\ UNCHANGED committed

BlockBegin(request) ==
    /\ Called
    /\ BlockBeginHandled(request)
    /\ UNCHANGED twin

\* the BlockEndResponse built from the context and the distribution info
BlockEndResponse(context, distribution_info) ==
    [ current_epoch_index |-> context.epoch_info.current_epoch_index,
      is_epoch_change |-> context.epoch_info.is_epoch_change,
      masternodes_paid_count |-> distribution_info.masternodes_paid_count,
      paid_epoch_index |-> distribution_info.paid_epoch_index ]

\* faulty variant of block_end: an empty slot is read as a default context
\* instead of being an error
block_end_default_context(st, context, request) ==
    LET used == IF context # None THEN Unwrap(context)
                ELSE [ block_info |->
                           [ block_height |-> 0, block_time_ms |-> 0,
                             previous_block_time_ms |-> None,
                             proposer_pro_tx_hash |-> 1 ],
                       epoch_info |-> [ current_epoch_index |-> 0,
                                        is_epoch_change |-> FALSE ] ]
    IN  Only({
          [ result |-> distribution_info.result, st |-> distribution_info.st,
            context |-> context,
            response |-> IF distribution_info.result # "Ok" THEN None
                         ELSE Some(BlockEndResponse(used, distribution_info)) ] :
            distribution_info \in
              { process_block_fees(st, used.block_info, used.epoch_info,
                                   request.fees) } })

\* block_end: the context is borrowed from the slot, the slot keeps it
block_end(st, context, request) ==
    IF context = None
    THEN [ result |-> "CorruptedCodeExecution", st |-> st,
           context |-> context, response |-> None ]
    ELSE Only({
           IF distribution_info.result # "Ok"
           THEN [ result |-> distribution_info.result,
                  st |-> distribution_info.st, context |-> context,
                  response |-> None ]
           ELSE [ result |-> "Ok", st |-> distribution_info.st,
                  context |-> context,
                  response |-> Some(BlockEndResponse(Unwrap(context),
                                                     distribution_info)) ] :
             distribution_info \in
               { process_block_fees(st, Unwrap(context).block_info,
                                    Unwrap(context).epoch_info,
                                    request.fees) } })

\* the handler on the state of the platform
BlockEndHandled(request) ==
    /\ \E r \in { block_end(store, block_execution_context, request) } :
           /\ store' = r.st
           /\ block_execution_context' = r.context
           /\ response' = [ op |-> "block_end", result |-> r.result,
                            request |-> request, response |-> r.response ]
    /\ UNCHANGED << committed, cache_genesis_time_ms, replaced_context,
                    context_genesis_time >>

BlockEnd(request) ==
    /\ Called
    /\ BlockEndHandled(request)
    /\ UNCHANGED twin

\* commit_transaction: the host commits the transaction it passed
CommitTransaction ==
    /\ Called
    /\ committed' = store
    /\ response' = [ op |-> "commit_transaction", result |-> "Ok" ]
    /\ UNCHANGED << twin, store, cache_genesis_time_ms, block_execution_context,
                    replaced_context, context_genesis_time >>

\* rollback_transaction: the host rolls the transaction back
RollbackTransaction ==
    /\ Called
    /\ store' = committed
    /\ response' = [ op |-> "rollback_transaction", result |-> "Ok" ]
    /\ UNCHANGED << twin, committed, cache_genesis_time_ms, block_execution_context,
                    replaced_context, context_genesis_time >>

Init ==
    /\ store = EmptyStore
    /\ committed = EmptyStore
    /\ twin = NoTwin
    /\ cache_genesis_time_ms = None
    /\ block_execution_context = None
    /\ response = [ op |-> "none", result |-> "Ok" ]
    /\ replaced_context = None
    /\ context_genesis_time = None
    /\ calls = 0

Next ==
    \/ InitChain
    \/ \E request \in BlockBeginRequests : BlockBegin(request)
    \/ \E fees \in FeesAggregates : BlockEnd([ fees |-> fees ])
    \/ CommitTransaction
    \/ RollbackTransaction

Spec == Init /\ [][Next]_vars

(***************************************************************************)
(* Properties of the callbacks (Spec)                                      *)
(***************************************************************************)
\* the step is a call of the handler op
Calls(op) == calls' = calls + 1 /\ response'.op = op

\* the genesis time a block_begin above height 1 finds: the cached value,
\* or the stored one when the cache is empty
KnownGenesisTime ==
    IF IsSome(cache_genesis_time_ms) THEN cache_genesis_time_ms
    ELSE IF store.pools THEN store.g
    ELSE None

\* C1: block_end called while the execution-context slot is empty returns
\* CorruptedCodeExecution and changes nothing in the store.
C1_EmptySlotBlockEnd ==
    [][ (Calls("block_end") /\ block_execution_context = None) =>
          /\ response'.result = "CorruptedCodeExecution"
          /\ store' = store
          /\ committed' = committed
          /\ block_execution_context' = None ]_vars

\* C1 witness: block_end has failed for want of a context on an
\* initialised store.
C1_Witness ==
    /\ response.op = "block_end"
    /\ response.result = "CorruptedCodeExecution"
    /\ block_execution_context = None
    /\ store.pools

\* C2: block_end empties the slot: a block_end that follows a block_end
\* which returned, with no block_begin in between, fails with
\* CorruptedCodeExecution.
C2_SlotTakenOnEnd ==
    [][ ( /\ Calls("block_end")
          /\ response.op = "block_end"
          /\ response.result = "Ok" ) =>
          response'.result = "CorruptedCodeExecution" ]_vars

\* C3: a block_end that follows a successful block_begin uses the block
\* info and the epoch info of that block_begin, whatever context that
\* block_begin found in the slot: it returns the epoch index and the
\* epoch-change flag of its request, counts the block for its proposer in
\* that epoch, and on an epoch change records its height and time as the
\* start of the epoch.
C3_BlockBeginReplaces ==
    [][ ( /\ Calls("block_end")
          /\ response.op = "block_begin"
          /\ response.result = "Ok"
          /\ response'.result = "Ok" ) =>
          LET rq == response.request
              g == Unwrap(response.genesis_time)
              index == (rq.block_time_ms - g) \div EpochLen
              change ==
                  \/ rq.previous_block_time_ms = None
                  \/ (Unwrap(rq.previous_block_time_ms) - g) \div EpochLen
                       # index
              end == Unwrap(response'.response)
              h == rq.proposer_pro_tx_hash
          IN  /\ end.current_epoch_index = index
              /\ end.is_epoch_change = change
              /\ index \in DOMAIN store'.cur
              /\ store'.cur[index].r[h] =
                   IF change THEN 1 ELSE store.cur[index].r[h] + 1
              /\ \A o \in Proposers \ {h} :
                   store'.cur[index].r[o] =
                     IF change THEN 0 ELSE store.cur[index].r[o]
              /\ change => /\ store'.cur[index].c = rq.block_height
                           /\ store'.cur[index].t = rq.block_time_ms ]_vars

\* C3 witness: block_end has succeeded after two consecutive successful
\* block_begin calls whose heights, times, proposers and epoch infos differ.
C3_Witness ==
    /\ response.op = "block_end"
    /\ response.result = "Ok"
    /\ replaced_context # None
    /\ block_execution_context # None
    /\ LET first == Unwrap(replaced_context)
           second == Unwrap(block_execution_context)
       IN  /\ first.block_info.block_height # second.block_info.block_height
           /\ first.block_info.block_time_ms # second.block_info.block_time_ms
           /\ first.block_info.proposer_pro_tx_hash
                # second.block_info.proposer_pro_tx_hash
           /\ first.epoch_info # second.epoch_info

\* C4: for a block accepted by block_begin with genesis time g, block time
\* t and previous block time t_prev, t >= g and block_end returns
\* current_epoch_index = floor((t - g) / EPOCH_CHANGE_TIME) and
\* is_epoch_change = TRUE exactly when t_prev is absent or
\* floor((t_prev - g) / EPOCH_CHANGE_TIME) differs from current_epoch_index.
C4_EpochInfo ==
    [][ (Calls("block_end") /\ response'.result = "Ok") =>
          LET block_info == Unwrap(block_execution_context).block_info
              g == Unwrap(context_genesis_time)
              t == block_info.block_time_ms
              t_prev == block_info.previous_block_time_ms
              end == Unwrap(response'.response)
          IN  /\ t >= g
              /\ end.current_epoch_index = (t - g) \div EpochLen
              /\ end.is_epoch_change =
                   ( \/ t_prev = None
                     \/ (Unwrap(t_prev) - g) \div EpochLen
                          # end.current_epoch_index ) ]_vars

\* C4 witness: block_end has returned epoch 1 and an epoch change for a
\* block above height 1 whose previous block was in epoch 0.
C4_Witness ==
    /\ response.op = "block_end"
    /\ response.result = "Ok"
    /\ Unwrap(response.response).current_epoch_index = 1
    /\ Unwrap(response.response).is_epoch_change
    /\ Unwrap(block_execution_context).block_info.previous_block_time_ms # None
    /\ Unwrap(block_execution_context).block_info.block_height > 1

\* C5: block_begin with height > 1 and a block time smaller than the genesis
\* time fails with BlockBeforeGenesis and leaves the slot and the store as
\* they were.
C5_BlockBeforeGenesis ==
    [][ ( /\ Calls("block_begin")
          /\ response'.request.block_height > 1
          /\ KnownGenesisTime # None
          /\ response'.request.block_time_ms < Unwrap(KnownGenesisTime) ) =>
          /\ response'.result = "BlockBeforeGenesis"
          /\ block_execution_context' = block_execution_context
          /\ store' = store
          /\ committed' = committed ]_vars

\* C5 witness: block_begin has failed with BlockBeforeGenesis while the slot
\* held the context of an earlier block, which it still holds.
C5_Witness ==
    /\ response.op = "block_begin"
    /\ response.result = "BlockBeforeGenesis"
    /\ response.request.block_height > 1
    /\ block_execution_context # None
    /\ IsSome(store.g)
    /\ response.request.block_time_ms < Unwrap(store.g)

\* C6: once a block_begin with height 1 has stored the genesis time, no
\* later call of a handler changes the stored or the cached genesis time.
C6_GenesisWrittenOnce ==
    [][ ( /\ \/ Calls("init_chain")
             \/ Calls("block_begin")
             \/ Calls("block_end")
          /\ IsSome(store.g) ) =>
          /\ store'.g = store.g
          /\ cache_genesis_time_ms' = cache_genesis_time_ms ]_vars

\* C7: block_begin with a height > 1 on an initialised store that holds no
\* genesis time fails with DriveIncoherence and stores no context.
C7_MissingGenesis ==
    [][ ( /\ Calls("block_begin")
          /\ response'.request.block_height > 1
          /\ store.pools
          /\ store.g = None ) =>
          /\ response'.result = "DriveIncoherence"
          /\ block_execution_context' = block_execution_context ]_vars

\* C15: after init_chain on an empty store the storage-fee distribution
\* pool is 0, each of the epochs 0..999 exists with storage credits 0, and
\* epoch 1000 does not exist: reading it fails.
C15_StateAfterInit ==
    [][ ( Calls("init_chain") /\ ~store.pools ) =>
          /\ response'.result = "Ok"
          /\ store'.pools
          /\ store'.s = 0
          /\ \A i \in 0 .. 999 :
                get_epoch_storage_credits_for_distribution(store', i)
                  = [ result |-> "Ok", v |-> Some(0) ]
          /\ get_epoch_storage_credits_for_distribution(store', 1000).result
                # "Ok" ]_vars

\* C15 witness: the first call was init_chain and it succeeded; the first
\* and the last of the 1000 epochs exist.
C15_Witness ==
    /\ calls = 1
    /\ response.op = "init_chain"
    /\ response.result = "Ok"
    /\ EpochExists(store, 0)
    /\ EpochExists(store, 999)

\* C16: init_chain called on a store that has already processed blocks
\* either fails or leaves the store unchanged: the storage-fee pool, the
\* epochs' credits and start data and the proposers' block counts are
\* never reset.
C16_SecondInitChain ==
    [][ ( /\ Calls("init_chain")
          /\ store.pools
          /\ DOMAIN store.cur # {} ) =>
          \/ response'.result # "Ok"
          \/ store' = store ]_vars

(***************************************************************************)
(* A walk of blocks, driven as test_abci_flow drives the handlers: after   *)
(* init_chain one block follows the other, block height h is proposed by   *)
(* proposer h, block_begin is followed by block_end with the fees of the   *)
(* test, and the walk stops at the first call that fails.  The test        *)
(* advances the block time by one day per block; the walk also takes       *)
(* steps of 20, 40 and 60 days, which cross one, two and three epoch       *)
(* boundaries.                                                             *)
(***************************************************************************)
DayLen == (24 * 60 * 60 * 1000) \div TimeUnitMs

WalkSteps == { 1, 20, 40, 60 }

WalkFees ==
    [ processing_fees |-> 1600, storage_fees |-> 42000, fee_multiplier |-> 1,
      refunds_by_epoch |-> << << 1, 100 >> >> ]

\* the request of the block after the one in the slot, step days later
WalkRequest(context, step) ==
    IF context = None
    THEN [ block_height |-> 1, block_time_ms |-> 0,
           previous_block_time_ms |-> None, proposer_pro_tx_hash |-> 1 ]
    ELSE LET last == Unwrap(context).block_info
         IN  [ block_height |-> last.block_height + 1,
               block_time_ms |-> last.block_time_ms + step * DayLen,
               previous_block_time_ms |-> Some(last.block_time_ms),
               proposer_pro_tx_hash |-> last.block_height + 1 ]

WalkBlockBegin(step) ==
    /\ response.op \in { "init_chain", "block_end" }
    /\ response.result = "Ok"
    /\ \E request \in { WalkRequest(block_execution_context, step) } :
           /\ request.block_height <= MaxBlocks
           /\ request.block_time_ms <= (MaxDay - 1) * DayLen
           /\ BlockBeginHandled(request)
           /\ UNCHANGED twin
    /\ calls' = calls + 1

WalkBlockEnd ==
    /\ response.op = "block_begin"
    /\ response.result = "Ok"
    /\ BlockEndHandled([ fees |-> WalkFees ])
    /\ UNCHANGED twin
    /\ calls' = calls + 1

\* the state after init_chain
InitWalk ==
    /\ store = grove_apply_batch([ EmptyStore EXCEPT !.pools = TRUE ],
                                 add_create_fee_pool_trees_operations).st
    /\ committed = EmptyStore
    /\ twin = NoTwin
    /\ cache_genesis_time_ms = None
    /\ block_execution_context = None
    /\ response = [ op |-> "init_chain", result |-> "Ok" ]
    /\ replaced_context = None
    /\ context_genesis_time = None
    /\ calls = 0

NextWalk ==
    \/ \E step \in WalkSteps : WalkBlockBegin(step)
    \/ WalkBlockEnd

SpecWalk == InitWalk /\ [][NextWalk]_vars

(***************************************************************************)
(* The storage-fee distribution on its own, driven as                      *)
(* test_deterministic_distribution drives it: the epochs 1000..1042 are    *)
(* initialised, the pool is set with                                       *)
(* update_storage_fee_distribution_pool_operation, and the operations of   *)
(* a distribution are applied as one batch.                                *)
(***************************************************************************)
\* pool values: nothing to distribute, every share floors to 0, the
\* value of the test and its double, one block's storage fees, and a value
\* every share of which is whole
PoolValues == { 0, 1, 1000, 2000, 42000, 400000 }

\* current epochs: the first one, the one of the test, and one whose last
\* target epoch does not exist
DistributionEpochs == { 0, 42, 44 }

\* the sum of f[lo] .. f[hi]
RECURSIVE SumRange(_, _, _)
SumRange(f, lo, hi) ==
    IF lo > hi THEN 0
    ELSE IF lo = hi THEN f[lo]
    ELSE LET mid == (lo + hi) \div 2
         IN  SumRange(f, lo, mid) + SumRange(f, mid + 1, hi)

RefillPool(P) ==
    /\ \E r \in { grove_apply_batch(store, << OpPool(P) >>) } :
           /\ store' = r.st
           /\ response' = [ op |-> "update_storage_fee_distribution_pool",
                            result |-> r.result, pool |-> P ]
    /\ UNCHANGED << twin, committed, cache_genesis_time_ms, block_execution_context,
                    replaced_context, context_genesis_time, calls >>

DistributeStoragePool(epoch_index) ==
    /\ calls < MaxDistributions
    /\ calls' = calls + 1
    /\ \E d \in { distribute_storage_fee_distribution_pool_to_epochs_operations(
                       store, epoch_index) } :
         \E r \in { IF d.result = "Ok" THEN grove_apply_batch(store, d.ops)
                    ELSE [ result |-> d.result, st |-> store ] } :
           /\ store' = r.st
           /\ response' = [ op |-> "distribute_storage_fee_distribution_pool",
                            result |-> r.result,
                            epoch_index |-> epoch_index,
                            pool_before |-> store.s ]
    /\ UNCHANGED << twin, committed, cache_genesis_time_ms, block_execution_context,
                    replaced_context, context_genesis_time >>

InitDist ==
    /\ store = ApplyOps([ EmptyStore EXCEPT !.pools = TRUE ],
                        add_create_fee_pool_trees_operations
                        \o << OpInitEmpty(EPOCHS_AHEAD .. (EPOCHS_AHEAD + 42)) >>).st
    /\ committed = EmptyStore
    /\ twin = NoTwin
    /\ cache_genesis_time_ms = None
    /\ block_execution_context = None
    /\ response = [ op |-> "none", result |-> "Ok" ]
    /\ replaced_context = None
    /\ context_genesis_time = None
    /\ calls = 0

NextDist ==
    \/ \E P \in PoolValues : RefillPool(P)
    \/ \E epoch_index \in DistributionEpochs : DistributeStoragePool(epoch_index)

SpecDist == InitDist /\ [][NextDist]_vars

(***************************************************************************)
(* Properties of the storage-fee distribution (SpecDist)                   *)
(***************************************************************************)
\* the step is a distribution that found a pool P > 0 and was applied
DistributedPool ==
    /\ calls' = calls + 1
    /\ response'.op = "distribute_storage_fee_distribution_pool"
    /\ response'.result = "Ok"
    /\ store.s > 0

\* the credits the step added to the 1000 target epochs of epoch_index
CreditedByStep(epoch_index) ==
    SumRange([ j \in DistributionTargets(epoch_index) |->
                 store'.storage[j] - store.storage[j] ],
             epoch_index, epoch_index + 999)

\* C8: for every pool value P > 0, after a distribution the pool holds
\* exactly P minus the sum of the shares credited to the 1000 target
\* epochs; the residue is >= 0 and the credited sum is at most P.
C8_PoolConservation ==
    [][ DistributedPool =>
          LET credited == CreditedByStep(response'.epoch_index)
          IN  /\ store'.s = store.s - credited
              /\ store'.s >= 0
              /\ credited <= store.s ]_vars

\* C8 witness: a pool of 42000 was distributed; a part of it was credited
\* and a part of it is the residue.
C8_Witness ==
    /\ response.op = "distribute_storage_fee_distribution_pool"
    /\ response.result = "Ok"
    /\ response.pool_before = 42000
    /\ store.s > 0
    /\ store.s < 42000
    /\ store.storage[response.epoch_index] > 0

C10_ResidueZero ==
    ( /\ response.op = "distribute_storage_fee_distribution_pool"
      /\ response.result = "Ok"
      /\ response.pool_before = 1000
      /\ response.epoch_index = 42 )
    => store.s = 0

\* C11: doubling the pool doubles every credited amount: the share a
\* distribution of an even pool 2 * P credits to a target epoch is exactly
\* twice the share credited for P.
C11_DoublingDoubles ==
    [][ ( DistributedPool /\ store.s % 2 = 0 ) =>
          LET i == response'.epoch_index
              P == store.s \div 2
          IN  \A j \in DistributionTargets(i) :
                store'.storage[j] - store.storage[j] =
                  2 * EpochFeeShare(P, (j - i) \div EPOCHS_PER_YEAR) ]_vars

(***************************************************************************)
(* The storage-fee distribution at the width of the code: the pool is a    *)
(* u64 and the shares are computed in rust_decimal's Decimal.  A credit    *)
(* amount is a vector of WideLimbs limbs to the base WideBase, lowest limb *)
(* first; the products and quotients below are exact, as they are in       *)
(* Decimal for operands of this size (u64::MAX * 0.05 has a 77-bit         *)
(* mantissa, Decimal holds 96 bits).                                       *)
(***************************************************************************)
WideBase == 10000

WideLimbs == 6

\* the limbs of a model integer
Wide(n) ==
    [ i \in 1 .. WideLimbs |->
        CASE i = 1 -> n % WideBase
          [] i = 2 -> (n \div WideBase) % WideBase
          [] i = 3 -> n \div (WideBase * WideBase)
          [] OTHER -> 0 ]

\* u64::MAX = 18446744073709551615
u64_MAX ==
    [ i \in 1 .. WideLimbs |->
        IF i <= 5 THEN << 1615, 955, 737, 6744, 1844 >>[i] ELSE 0 ]

\* a * k for a small factor k (k * WideBase fits a model integer)
RECURSIVE WideMulFrom(_, _, _, _)
WideMulFrom(a, k, i, carry) ==
    IF i > WideLimbs THEN << >>
    ELSE Only({ << v % WideBase >> \o WideMulFrom(a, k, i + 1, v \div WideBase) :
                  v \in { a[i] * k + carry } })

WideMul(a, k) == WideMulFrom(a, k, 1, 0)

\* floor(a / d) for a small divisor d (d * WideBase fits a model integer)
RECURSIVE WideDivFrom(_, _, _, _)
WideDivFrom(a, d, i, rem) ==
    IF i = 0 THEN << >>
    ELSE Only({ WideDivFrom(a, d, i - 1, v % d) \o << v \div d >> :
                  v \in { rem * WideBase + a[i] } })

WideDiv(a, d) == WideDivFrom(a, d, WideLimbs, 0)

\* a + b
RECURSIVE WideAddFrom(_, _, _, _)
WideAddFrom(a, b, i, carry) ==
    IF i > WideLimbs THEN << >>
    ELSE Only({ << v % WideBase >> \o WideAddFrom(a, b, i + 1, v \div WideBase) :
                  v \in { a[i] + b[i] + carry } })

WideAdd(a, b) == WideAddFrom(a, b, 1, 0)

\* a < b
RECURSIVE WideLessFrom(_, _, _)
WideLessFrom(a, b, i) ==
    IF i = 0 THEN FALSE
    ELSE IF a[i] # b[i] THEN a[i] < b[i]
    ELSE WideLessFrom(a, b, i - 1)

WideLess(a, b) == WideLessFrom(a, b, WideLimbs)

\* a - b for b <= a
RECURSIVE WideSubFrom(_, _, _, _)
WideSubFrom(a, b, i, borrow) ==
    IF i > WideLimbs THEN << >>
    ELSE Only({ << v % WideBase >>
                \o WideSubFrom(a, b, i + 1, IF v < 0 THEN 1 ELSE 0) :
                  v \in { a[i] - b[i] - borrow } })

WideSub(a, b) == WideSubFrom(a, b, 1, 0)

\* Decimal::to_u64 succeeds on a value that is not negative and fits 64 bits
FitsU64(a) == ~WideLess(u64_MAX, a)

\* epoch_fee_share_dec = floor(P * ratio / 20), the ratio in units of 1e-5
WideEpochFeeShare(P, year) ==
    WideDiv(WideDiv(WideMul(P, FEE_DISTRIBUTION_TABLE[year + 1]),
                    100 * EPOCHS_PER_YEAR),
            1000)

\* what the years lo..hi withdraw from the buffer, 20 epoch shares per year
RECURSIVE WideWithdrawn(_, _, _)
WideWithdrawn(P, lo, hi) ==
    IF lo = hi THEN WideMul(WideEpochFeeShare(P, lo), EPOCHS_PER_YEAR)
    ELSE Only({ WideAdd(WideWithdrawn(P, lo, mid), WideWithdrawn(P, mid + 1, hi)) :
                  mid \in { (lo + hi) \div 2 } })

\* the buffer after all 50 years have been withdrawn from it; negative is
\* set when more than the buffer was withdrawn (to_u64 of it then fails)
WideBufferAfterYears(P, buffer) ==
    Only({ IF WideLess(buffer, taken)
           THEN [ negative |-> TRUE, v |-> buffer ]
           ELSE [ negative |-> FALSE, v |-> WideSub(buffer, taken) ] :
             taken \in { WideWithdrawn(P, 0, DISTRIBUTION_YEARS - 1) } })

\* distribute_storage_fee_distribution_pool_to_epochs_operations on u64
\* credits
distribute_storage_fee_distribution_pool_u64(st, epoch_index) ==
    LET P == st.s
        targets == DistributionTargets(epoch_index)
    IN  IF ~st.pools THEN [ result |-> "PathNotFound", ops |-> << >> ]
        ELSE IF P = Wide(0) THEN [ result |-> "Ok", ops |-> << >> ]
        ELSE IF ~(targets \subseteq DOMAIN st.storage)
             THEN [ result |-> "PathKeyNotFound", ops |-> << >> ]
        ELSE Only({
          IF buffer.negative
             \/ \E year \in 0 .. (DISTRIBUTION_YEARS - 1) : ~FitsU64(shares[year])
          THEN [ result |-> "CorruptedStorageFeePoolInvalidItemLength",
                 ops |-> << >> ]
          ELSE [ result |-> "Ok",
                 ops |-> << OpStorageMany(
                              [ j \in targets |->
                                  WideAdd(st.storage[j],
                                          shares[(j - epoch_index)
                                                   \div EPOCHS_PER_YEAR]) ]),
                            OpPool(buffer.v) >> ] :
            buffer \in { WideBufferAfterYears(P, P) },
            shares \in { [ year \in 0 .. (DISTRIBUTION_YEARS - 1) |->
                             WideEpochFeeShare(P, year) ] } })

\* pool values: nothing to distribute, the value of
\* test_deterministic_distribution, a value every share of which is
\* whole, u64::MAX, and u64::MAX less its lowest limb
WidePoolValues ==
    { Wide(0), Wide(1000), Wide(400000), u64_MAX,
      [ u64_MAX EXCEPT ![1] = 0 ] }

UpdatePoolU64(P) ==
    /\ \E r \in { grove_apply_batch(store, << OpPool(P) >>) } :
           /\ store' = r.st
           /\ response' = [ op |-> "update_storage_fee_distribution_pool",
                            result |-> r.result, pool |-> P ]
    /\ UNCHANGED << twin, committed, cache_genesis_time_ms, block_execution_context,
                    replaced_context, context_genesis_time, calls >>

DistributeStoragePoolU64 ==
    /\ calls < MaxDistributions
    /\ calls' = calls + 1
    /\ \E d \in { distribute_storage_fee_distribution_pool_u64(store, 0) } :
         \E r \in { IF d.result = "Ok" THEN grove_apply_batch(store, d.ops)
                    ELSE [ result |-> d.result, st |-> store ] } :
           /\ store' = r.st
           /\ response' = [ op |-> "distribute_storage_fee_distribution_pool",
                            result |-> r.result,
                            epoch_index |-> 0,
                            pool_before |-> store.s ]
    /\ UNCHANGED << twin, committed, cache_genesis_time_ms, block_execution_context,
                    replaced_context, context_genesis_time >>

\* the store of setup_platform_with_initial_state_structure
InitU64 ==
    /\ store = [ EmptyStore EXCEPT
                   !.pools = TRUE,
                   !.s = Wide(0),
                   !.storage = [ j \in 0 .. (EPOCHS_AHEAD - 1) |-> Wide(0) ] ]
    /\ committed = EmptyStore
    /\ twin = NoTwin
    /\ cache_genesis_time_ms = None
    /\ block_execution_context = None
    /\ response = [ op |-> "none", result |-> "Ok" ]
    /\ replaced_context = None
    /\ context_genesis_time = None
    /\ calls = 0

NextU64 ==
    \/ \E P \in WidePoolValues : UpdatePoolU64(P)
    \/ DistributeStoragePoolU64

SpecU64 == InitU64 /\ [][NextU64]_vars

\* C12: with the pool at u64::MAX and current epoch 0 the distribution
\* completes without an overflow or conversion error and leaves a pool
\* residue of exactly 0.
C12_MaxPoolResidueZero ==
    [][ ( /\ calls' = calls + 1
          /\ response'.op = "distribute_storage_fee_distribution_pool"
          /\ store.s = u64_MAX ) =>
          /\ response'.result = "Ok"
          /\ store'.s = Wide(0) ]_vars

(***************************************************************************)
(* Batches applied directly to the store, as the tests of the update       *)
(* operations apply them: before and after the fee pool trees are created, *)
(* to epochs that exist and to one that was never initialised.             *)
(***************************************************************************)
MaxBatchLen == 2

\* the operations of the tests: the pool set to 42, the storage credits of
\* epoch 0 and of epoch 7000 set to 42, and the epoch 1000 initialised
BatchOperations ==
    { OpPool(42),
      OpStorageMany([ j \in { 0 } |-> 42 ]),
      OpStorageMany([ j \in { 7000 } |-> 42 ]),
      OpInitEmpty({ EPOCHS_AHEAD }) }

Batches == UNION { [ 1 .. n -> BatchOperations ] : n \in 1 .. MaxBatchLen }

ApplyBatch(batch) ==
    /\ \E r \in { grove_apply_batch(store, batch) } :
           /\ store' = r.st
           /\ response' = [ op |-> "apply_batch", result |-> r.result,
                            batch |-> batch ]
    /\ UNCHANGED << twin, committed, cache_genesis_time_ms, block_execution_context,
                    replaced_context, context_genesis_time, calls >>

\* the fee pool trees are created once, as the setup of the tests does
NextBatch ==
    \/ ~store.pools /\ InitChain
    \/ \E batch \in Batches : ApplyBatch(batch)

SpecBatch == Init /\ [][NextBatch]_vars

\* the operation is addressed to the pool item of a store without fee pool
\* trees or to an epoch that was never initialised
AddressedToMissing(st, op) ==
    \/ op.kind = "pool" /\ ~st.pools
    \/ op.kind = "init_empty" /\ ~st.pools
    \/ op.kind = "storage_many" /\ ~(DOMAIN op.upd \subseteq DOMAIN st.storage)

\* C14: applying a batch is atomic: if one of its operations fails (an
\* update of the never initialised epoch 7000, or of the pool before
\* init_chain) the apply returns an error and none of the other operations
\* of the batch is visible in the store.
C14_BatchAtomic ==
    [][ ( /\ response'.op = "apply_batch"
          /\ calls' = calls
          /\ \E k \in DOMAIN response'.batch :
                AddressedToMissing(store, response'.batch[k]) ) =>
          /\ response'.result = "PathKeyNotFound"
          /\ store' = store ]_vars

\* C14 witness: on an initialised store a batch that sets the pool to 42 and
\* then updates epoch 7000 was refused, and the pool is still 0.
C14_Witness ==
    /\ response.op = "apply_batch"
    /\ response.result = "PathKeyNotFound"
    /\ response.batch = << OpPool(42), OpStorageMany([ j \in { 7000 } |-> 42 ]) >>
    /\ store.pools
    /\ store.s = 0

(***************************************************************************)
(* Further properties of the storage-fee distribution (SpecDist)           *)
(***************************************************************************)
\* C13: when the storage-fee distribution pool is 0 the distribution adds
\* no operation to the batch; applying the empty batch returns BatchIsEmpty
\* and the store, every epoch's storage credits included, is unchanged.
C13_NothingToDistribute ==
    [][ ( /\ calls' = calls + 1
          /\ response'.op = "distribute_storage_fee_distribution_pool"
          /\ store.s = 0 ) =>
          /\ distribute_storage_fee_distribution_pool_to_epochs_operations(
                 store, response'.epoch_index) = [ result |-> "Ok", ops |-> << >> ]
          /\ response'.result = "BatchIsEmpty"
          /\ store' = store ]_vars

\* C13 witness: a pool of 400000 was distributed without a residue; the
\* next distribution finds the pool at 0, answers BatchIsEmpty and leaves
\* the credits of the first one in place.
C13_Witness ==
    /\ calls = 2
    /\ response.op = "distribute_storage_fee_distribution_pool"
    /\ response.pool_before = 0
    /\ response.result = "BatchIsEmpty"
    /\ store.s = 0
    /\ \E j \in DOMAIN store.storage : store.storage[j] > 0

(***************************************************************************)
(* Properties of a walk of blocks (SpecWalk)                               *)
(***************************************************************************)
\* C17: after init_chain, after every block that was processed with current
\* epoch index i every epoch subtree with an index in [i, i + 1000] exists.
C17_EpochsAheadExist ==
    [][ ( Calls("block_end") /\ response'.result = "Ok" ) =>
          LET i == Unwrap(response'.response).current_epoch_index
          IN  \A j \in i .. (i + EPOCHS_AHEAD) : EpochExists(store', j) ]_vars

\* the request is the one of day `day` of the daily walk: block height
\* `day`, day - 1 days after genesis (every step before it was one day)
DailyWalkRequest(request) ==
    /\ request.block_height <= 22
    /\ request.block_time_ms = (request.block_height - 1) * DayLen

\* C18: in the 22-block daily walk every block_begin and block_end
\* succeeds; current_epoch_index is 0 on days 1..19 and 1 from day 20;
\* is_epoch_change is true only on days 1 and 20; day 20 reports
\* paid_epoch_index = 0 and masternodes_paid_count = 19; every other day
\* reports masternodes_paid_count = 0 and no paid epoch.
C18_DailyWalk ==
    [][ /\ ( Calls("block_begin") /\ DailyWalkRequest(response'.request) ) =>
             response'.result = "Ok"
        /\ ( /\ Calls("block_end")
             /\ DailyWalkRequest(Unwrap(block_execution_context).block_info) ) =>
             LET day == Unwrap(block_execution_context).block_info.block_height
             IN  /\ response'.result = "Ok"
                 /\ response'.response =
                      Some([ current_epoch_index |-> IF day >= 20 THEN 1 ELSE 0,
                             is_epoch_change |-> day \in { 1, 20 },
                             masternodes_paid_count |->
                                 IF day = 20 THEN 19 ELSE 0,
                             paid_epoch_index |->
                                 IF day = 20 THEN Some(0) ELSE None ]) ]_vars

\* C18 witness: block_end of day 22 of the daily walk has succeeded; epoch 0
\* has been paid out and the 19 proposers of its blocks hold credits.
C18_Witness ==
    /\ response.op = "block_end"
    /\ response.result = "Ok"
    /\ Unwrap(block_execution_context).block_info.block_height = 22
    /\ Unwrap(block_execution_context).block_info.block_time_ms = 21 * DayLen
    /\ ~EpochExists(store, 0)
    /\ \A h \in 1 .. 19 : store.balances[h] > 0

\* the storage fees of the blocks from the most recent epoch-change block
\* with an epoch index > 0 onward: that block's height is the start block
\* height of the current epoch
StorageFeesSinceEpochChange(st, context) ==
    LET info == Unwrap(context)
        index == info.epoch_info.current_epoch_index
    IN  (info.block_info.block_height - st.cur[index].c + 1)
          * WalkFees.storage_fees

\* C19: after a block, the storage-fee distribution pool equals the sum of
\* the storage_fees of the blocks from the most recent epoch-change block
\* with epoch index > 0 onward (126000 after day 22 of the daily walk):
\* nothing of what was distributed at the epoch change remains in the pool.
C19_PoolSinceEpochChange ==
    ( /\ response.op = "block_end"
      /\ response.result = "Ok"
      /\ Unwrap(response.response).current_epoch_index > 0 )
    => store.s = StorageFeesSinceEpochChange(store, block_execution_context)

\* C20: if a refund entry (e, r) of block_end has r greater than the
\* storage credits epoch e holds (in a block without a distribution, which
\* would change them first), block_end fails and the store is left
\* unchanged.
C20_RefundUnderflowFatal ==
    [][ ( /\ Calls("block_end")
          /\ block_execution_context # None
          /\ Unwrap(block_execution_context).epoch_info.current_epoch_index = 0
          /\ \E k \in DOMAIN response'.request.fees.refunds_by_epoch :
               LET entry == response'.request.fees.refunds_by_epoch[k]
               IN  /\ EpochExists(store, entry[1])
                   /\ entry[2] > store.storage[entry[1]] ) =>
          /\ response'.result # "Ok"
          /\ store' = store ]_vars

(***************************************************************************)
(* A host that calls the callbacks in any order (SpecHost)                 *)
(*                                                                         *)
(* The handlers do not check the order of the calls: after init_chain the  *)
(* host may call block_begin, block_end, init_chain, commit and rollback   *)
(* in any order.  The blocks carry the fees of test_abci_flow; a block     *)
(* comes one day, or twenty days, after the block in the slot.             *)
(***************************************************************************)
MaxHostCalls == 7

HostSteps == { 1, 20 }

HostCalled ==
    /\ calls < MaxHostCalls
    /\ calls' = calls + 1

HostBlockBegin(step) ==
    /\ HostCalled
    /\ BlockBeginHandled(WalkRequest(block_execution_context, step))
    /\ UNCHANGED twin

HostBlockEnd ==
    /\ HostCalled
    /\ BlockEndHandled([ fees |-> WalkFees ])
    /\ UNCHANGED twin

HostInitChain ==
    /\ HostCalled
    /\ \E r \in { grove_apply_batch([ store EXCEPT !.pools = TRUE ],
                                     add_create_fee_pool_trees_operations) } :
           /\ store' = r.st
           /\ response' = [ op |-> "init_chain", result |-> r.result ]
    /\ UNCHANGED << twin, committed, cache_genesis_time_ms, block_execution_context,
                    replaced_context, context_genesis_time >>

HostCommitTransaction ==
    /\ HostCalled
    /\ committed' = store
    /\ response' = [ op |-> "commit_transaction", result |-> "Ok" ]
    /\ UNCHANGED << twin, store, cache_genesis_time_ms, block_execution_context,
                    replaced_context, context_genesis_time >>

\* the response of the rollback also records the call it followed
HostRollbackTransaction ==
    /\ HostCalled
    /\ store' = committed
    /\ response' = [ op |-> "rollback_transaction", result |-> "Ok",
                     after |-> [ op |-> response.op,
                                 result |-> response.result ] ]
    /\ UNCHANGED << twin, committed, cache_genesis_time_ms, block_execution_context,
                    replaced_context, context_genesis_time >>

\* the state after a committed init_chain
InitHost ==
    /\ store = grove_apply_batch([ EmptyStore EXCEPT !.pools = TRUE ],
                                 add_create_fee_pool_trees_operations).st
    /\ committed = store
    /\ twin = NoTwin
    /\ cache_genesis_time_ms = None
    /\ block_execution_context = None
    /\ response = [ op |-> "init_chain", result |-> "Ok" ]
    /\ replaced_context = None
    /\ context_genesis_time = None
    /\ calls = 0

NextHost ==
    \/ \E step \in HostSteps : HostBlockBegin(step)
    \/ HostBlockEnd
    \/ HostInitChain
    \/ HostCommitTransaction
    \/ HostRollbackTransaction

SpecHost == InitHost /\ [][NextHost]_vars

\* the step is a block_end that reports a paid epoch
PaysEpoch ==
    /\ response'.op = "block_end"
    /\ response'.result = "Ok"
    /\ Unwrap(response'.response).paid_epoch_index # None

\* the store the payout of the step reads: the one the first batch of
\* process_block_fees leaves
PayoutStore ==
    LET context == Unwrap(block_execution_context)
    IN  IF context.epoch_info.is_epoch_change
        THEN apply_epoch_change(store, context.block_info, context.epoch_info,
                                response'.request.fees).st
        ELSE store

\* the total T = storage(p) + processing(p) of the epoch the step pays
PaidEpochTotal ==
    LET p == Unwrap(Unwrap(response'.response).paid_epoch_index)
    IN  Only({ s1.storage[p] + s1.cur[p].p : s1 \in { PayoutStore } })

\* the credits the step adds to the identity balances
PaidToIdentities ==
    SumRange(store'.balances, 0, MaxBlocks)
        - SumRange(store.balances, 0, MaxBlocks)

\* C21: payout conservation.  Whenever a block_end pays an epoch p, the
\* credits added to the balances of the identities (proposers and
\* reward-share beneficiaries) are at most T = storage(p) + processing(p).
C21_PayoutConservation ==
    [][ PaysEpoch => PaidToIdentities <= PaidEpochTotal ]_vars

\* C22: proposer settlement.  After a block_end that reports
\* paid_epoch_index = p the epoch tree E(p) is absent from the store, its
\* proposer map with it, and reading the storage credits of E(p) fails.
C22_PaidEpochAbsent ==
    (/\ response.op = "block_end"
     /\ response.result = "Ok"
     /\ Unwrap(response.response).paid_epoch_index # None)
    => \A p \in { Unwrap(Unwrap(response.response).paid_epoch_index) } :
          /\ ~EpochExists(store, p)
          /\ p \notin DOMAIN store.cur
          /\ get_epoch_storage_credits_for_distribution(store, p).result
                # "Ok"

\* a block_end has paid two proposers of epoch 0 and reports it
C22_Witness ==
    /\ response.op = "block_end"
    /\ response.result = "Ok"
    /\ Unwrap(response.response).paid_epoch_index = Some(0)
    /\ Unwrap(response.response).masternodes_paid_count = 2
    /\ store.balances[2] > 0
    /\ ~EpochExists(store, 0)

\* the states of epoch e in the store st.  An epoch is Empty when its tree
\* exists without start data, Current when it is the newest epoch with
\* start data, Closed when a newer epoch has start data, and Paid when its
\* tree is absent although a newer epoch has start data.
EpochState(st, e) ==
    IF ~st.pools \/ DOMAIN st.cur = {} THEN "Empty"
    ELSE IF ~EpochExists(st, e)
         THEN (IF e < SetMax(DOMAIN st.cur) THEN "Paid" ELSE "Absent")
    ELSE IF e \notin DOMAIN st.cur THEN "Empty"
    ELSE IF e = SetMax(DOMAIN st.cur) THEN "Current"
    ELSE "Closed"

\* the epochs the blocks of a run can make current
LifecycleEpochs == 0 .. (MaxEpoch + 1)

\* the place of a state in the life of an epoch
EpochStateRank(state) ==
    CASE state = "Absent" -> 0
      [] state = "Empty" -> 1
      [] state = "Current" -> 2
      [] state = "Closed" -> 3
      [] state = "Paid" -> 4

\* C23: the life of an epoch.  Between two committed states every epoch
\* keeps its state or moves forward along Empty, Current, Closed, Paid: a
\* Closed epoch does not become Current again and a Paid epoch stays
\* absent; and the committed state of a block whose block_end reported the
\* current epoch i has exactly the epoch i Current.
C23_EpochLifecycle ==
    [][ /\ \A e \in LifecycleEpochs :
              EpochStateRank(EpochState(committed, e))
                  <= EpochStateRank(EpochState(committed', e))
        /\ (/\ response.op = "block_end"
            /\ response.result = "Ok"
            /\ response'.op = "commit_transaction")
           => EpochState(committed',
                         Unwrap(response.response).current_epoch_index)
                 = "Current" ]_vars

(***************************************************************************)
(* Two platforms driven by the same calls (SpecTwin)                       *)
(*                                                                         *)
(* The first platform is the one of the variables store,                   *)
(* cache_genesis_time_ms, block_execution_context and response; twin is a  *)
(* second platform opened on a store of its own.  Every call goes to both  *)
(* with the same arguments.                                                *)
(***************************************************************************)
\* variant of OpenPlatform: the store is fresh, the process is not, its slot
\* still holds the context of a block of the store it served before
OpenPlatformWithUsedContext ==
    [ store |-> EmptyStore, cache_genesis_time_ms |-> None,
      block_execution_context |->
          Some([ block_info |->
                     [ block_height |-> 1, block_time_ms |-> 0,
                       previous_block_time_ms |-> None,
                       proposer_pro_tx_hash |-> 1 ],
                 epoch_info |-> [ current_epoch_index |-> 0,
                                  is_epoch_change |-> TRUE ] ]),
      response |-> [ op |-> "none", result |-> "Ok" ] ]

\* Drive::open on a fresh store: nothing stored, nothing cached, no context
OpenPlatform ==
    [ store |-> EmptyStore, cache_genesis_time_ms |-> None,
      block_execution_context |-> None,
      response |-> [ op |-> "none", result |-> "Ok" ] ]

TwinInitChain ==
    /\ HostCalled
    /\ \E r \in { grove_apply_batch([ store EXCEPT !.pools = TRUE ],
                                     add_create_fee_pool_trees_operations) } :
           /\ store' = r.st
           /\ response' = [ op |-> "init_chain", result |-> r.result ]
    /\ \E r \in { grove_apply_batch([ twin.store EXCEPT !.pools = TRUE ],
                                     add_create_fee_pool_trees_operations) } :
           twin' = [ twin EXCEPT
                       !.store = r.st,
                       !.response = [ op |-> "init_chain",
                                      result |-> r.result ] ]
    /\ UNCHANGED << committed, cache_genesis_time_ms, block_execution_context,
                    replaced_context, context_genesis_time >>

TwinBlockBegin(step) ==
    /\ HostCalled
    /\ \E request \in { WalkRequest(block_execution_context, step) } :
           /\ BlockBeginHandled(request)
           /\ \E r \in { block_begin(twin.store, twin.cache_genesis_time_ms,
                                      twin.block_execution_context,
                                      request) } :
                  twin' = [ store |-> r.st,
                            cache_genesis_time_ms |-> r.cache,
                            block_execution_context |-> r.context,
                            response |-> [ op |-> "block_begin",
                                           result |-> r.result,
                                           request |-> request,
                                           genesis_time |-> r.genesis_time ] ]

TwinBlockEnd ==
    /\ HostCalled
    /\ \E request \in { [ fees |-> WalkFees ] } :
           /\ BlockEndHandled(request)
           /\ \E r \in { block_end(twin.store, twin.block_execution_context,
                                    request) } :
                  twin' = [ twin EXCEPT
                              !.store = r.st,
                              !.block_execution_context = r.context,
                              !.response = [ op |-> "block_end",
                                             result |-> r.result,
                                             request |-> request,
                                             response |-> r.response ] ]

InitTwin ==
    /\ store = EmptyStore
    /\ committed = EmptyStore
    /\ cache_genesis_time_ms = None
    /\ block_execution_context = None
    /\ response = [ op |-> "none", result |-> "Ok" ]
    /\ replaced_context = None
    /\ context_genesis_time = None
    /\ calls = 0
    /\ twin = OpenPlatform

NextTwin ==
    \/ TwinInitChain
    \/ \E step \in HostSteps : TwinBlockBegin(step)
    \/ TwinBlockEnd

SpecTwin == InitTwin /\ [][NextTwin]_vars

C25_RollbackBeforeBlockEnd ==
    [][ (/\ response.op = "rollback_transaction"
         /\ response.after.op = "block_begin"
         /\ response.after.result = "Ok"
         /\ response'.op = "block_end")
        => /\ response'.result = "CorruptedCodeExecution"
           /\ store' = store ]_vars

\* C26: the genesis-time cache is never stale.  At every point the value
\* get_genesis_time returns is the value of Pools/"g" seen through the
\* transaction: a cached genesis time is the one the store holds.
C26_CacheAgreesWithStore ==
    \A read \in { get_genesis_time(cache_genesis_time_ms, store) } :
        read.result = "Ok" =>
            /\ fetch_genesis_time(store).result = "Ok"
            /\ fetch_genesis_time(store).v = read.v

(***************************************************************************)
(* find_next_epoch_stat_block_height on its own (SpecFind)                 *)
(*                                                                         *)
(* The store is the one init_chain leaves, with a start block height in    *)
(* some of the epochs 0 .. MaxFindEpoch (the epochs of a gap have none);   *)
(* the start heights grow with the epoch index.                            *)
(***************************************************************************)
MaxFindEpoch == 4

FindEpochs == 0 .. MaxFindEpoch

\* the store after init_chain with a start block height in the epochs of S
StoreWithStartHeights(S) ==
    [ grove_apply_batch([ EmptyStore EXCEPT !.pools = TRUE ],
                        add_create_fee_pool_trees_operations).st
        EXCEPT !.cur = [ e \in S |-> InitCurrent(1, e + 1, e * EpochLen) ] ]

FindNextEpochStartBlockHeight(from_epoch_index, to_epoch_index) ==
    /\ response' =
          [ op |-> "find_next_epoch_stat_block_height",
            result |-> "Ok",
            from_epoch_index |-> from_epoch_index,
            to_epoch_index |-> to_epoch_index,
            found |-> find_next_epoch_stat_block_height(
                          store, from_epoch_index, to_epoch_index) ]
    /\ UNCHANGED << store, twin, committed, cache_genesis_time_ms,
                    block_execution_context, replaced_context,
                    context_genesis_time, calls >>

InitFind ==
    /\ \E S \in SUBSET FindEpochs : store = StoreWithStartHeights(S)
    /\ committed = store
    /\ twin = NoTwin
    /\ cache_genesis_time_ms = None
    /\ block_execution_context = None
    /\ response = [ op |-> "none", result |-> "Ok" ]
    /\ replaced_context = None
    /\ context_genesis_time = None
    /\ calls = 0

NextFind ==
    \E from_epoch_index \in FindEpochs, to_epoch_index \in FindEpochs :
        FindNextEpochStartBlockHeight(from_epoch_index, to_epoch_index)

SpecFind == InitFind /\ [][NextFind]_vars

\* the epochs after from_epoch_index, up to to_epoch_index, that have a
\* start block height
EpochsWithStart(st, from_epoch_index, to_epoch_index) ==
    { e \in DOMAIN st.cur : from_epoch_index < e /\ e <= to_epoch_index }

\* C27: find_next_epoch_stat_block_height(from, to) returns the pair
\* (e, start height of e) for the smallest epoch index e with
\* from < e <= to that has a start block height, gaps or not, and None
\* when there is no such epoch.
C27_FindsNextEpochAndHeight ==
    response.op = "find_next_epoch_stat_block_height" =>
        \A with_start \in { EpochsWithStart(store, response.from_epoch_index,
                                            response.to_epoch_index) } :
            IF with_start = {} THEN response.found = None
            ELSE response.found
                    = Some(<< SetMin(with_start),
                              store.cur[SetMin(with_start)].c >>)

\* the block count of proposer h in epoch i; an epoch without start data
\* has no proposer map
ProposerBlockCount(st, i, h) ==
    IF i \in DOMAIN st.cur THEN st.cur[i].r[h] ELSE 0

\* the sum of the block counts of epoch i
EpochBlockCount(st, i) ==
    IF i \in DOMAIN st.cur THEN SumRange(st.cur[i].r, 1, MaxBlocks) ELSE 0

\* C28: proposer block counts.  A successful block_end increments the
\* count of its block's proposer in the current epoch by exactly 1 and
\* changes no other count of that epoch, and the counts of the epoch then
\* sum to no more than the blocks the epoch has: the heights from the
\* epoch's start height to the block's height, each counted once.
C28_ProposerBlockCounts ==
    [][ (response'.op = "block_end" /\ response'.result = "Ok")
        => \A context \in { Unwrap(block_execution_context) } :
             \A i \in { context.epoch_info.current_epoch_index } :
               /\ \A h \in Proposers :
                     ProposerBlockCount(store', i, h)
                        = ProposerBlockCount(store, i, h)
                          + (IF h = context.block_info.proposer_pro_tx_hash
                             THEN 1 ELSE 0)
               /\ EpochBlockCount(store', i)
                     <= context.block_info.block_height
                           - store'.cur[i].c + 1 ]_vars

\* in a walk of blocks a block_end has counted the third block of epoch 0
C28_Witness ==
    /\ response.op = "block_end"
    /\ response.result = "Ok"
    /\ Unwrap(block_execution_context).block_info.block_height = 3
    /\ EpochBlockCount(store, 0) = 3
    /\ ProposerBlockCount(store, 0, 3) = 1

\* the processing credits of epoch i; an epoch without start data has none
ProcessingCredits(st, i) ==
    IF i \in DOMAIN st.cur THEN st.cur[i].p ELSE 0

C31_NoPayoutInEpochZero ==
    (/\ response.op = "block_end"
     /\ block_execution_context # None
     /\ Unwrap(block_execution_context).epoch_info.current_epoch_index = 0)
    => /\ response.result # "UnexpectedMissingStart"
       /\ response.result = "Ok"
            => /\ Unwrap(response.response).paid_epoch_index = None
               /\ Unwrap(response.response).masternodes_paid_count = 0

\* the block_end of the height-1 block has succeeded with an epoch change
\* to epoch 0 and the proposer of the block is counted
C31_Witness ==
    /\ response.op = "block_end"
    /\ response.result = "Ok"
    /\ Unwrap(block_execution_context).block_info.block_height = 1
    /\ Unwrap(response.response).is_epoch_change
    /\ Unwrap(response.response).current_epoch_index = 0
    /\ Unwrap(response.response).paid_epoch_index = None
    /\ store.cur[0].r[1] = 1

\* C32: start data of the current epoch.  After a successful block_end the
\* epoch of the block has start data, and when the block changed the
\* epoch, epoch 0 at the height-1 block included, they are the block's
\* height and time and the fee multiplier of its fees; the epoch a payout
\* pays had its start block height when the payout read it.
C32_StartDataRecorded ==
    [][ (response'.op = "block_end" /\ response'.result = "Ok")
        => \A context \in { Unwrap(block_execution_context) } :
             \A i \in { context.epoch_info.current_epoch_index } :
               /\ i \in DOMAIN store'.cur
               /\ context.epoch_info.is_epoch_change =>
                    /\ store'.cur[i].c = context.block_info.block_height
                    /\ store'.cur[i].t = context.block_info.block_time_ms
                    /\ store'.cur[i].m = response'.request.fees.fee_multiplier
               /\ PaysEpoch =>
                    Unwrap(Unwrap(response'.response).paid_epoch_index)
                        \in DOMAIN PayoutStore.cur ]_vars

\* epoch 1 holds the start data of the block that started it twenty days
\* after the height-1 block, and that block has paid epoch 0 over its one
\* block
C32_Witness ==
    /\ response.op = "block_end"
    /\ response.result = "Ok"
    /\ Unwrap(response.response).current_epoch_index = 1
    /\ Unwrap(response.response).paid_epoch_index = Some(0)
    /\ store.cur[1].c = 2
    /\ store.cur[1].t = 20 * DayLen
    /\ store.cur[1].m = 1
    /\ Unwrap(response.response).masternodes_paid_count = 1
    /\ store.balances[1] > 0

\* the call searched from an epoch to a later one, and these two are the
\* only epochs with a start block height
OnlyFromAndToHaveStart ==
    /\ response.op = "find_next_epoch_stat_block_height"
    /\ response.from_epoch_index < response.to_epoch_index
    /\ DOMAIN store.cur = { response.from_epoch_index,
                            response.to_epoch_index }

u64_MODULUS == WideAdd(u64_MAX, Wide(1))

\* faulty variant of u64_checked_add: the sum is reduced modulo 2^64
u64_wrapping_add(a, b) ==
    Only({ IF FitsU64(sum) THEN Some(sum) ELSE Some(WideSub(sum, u64_MODULUS)) :
             sum \in { WideAdd(a, b) } })

\* u64::checked_add: None when the sum does not fit 64 bits
u64_checked_add(a, b) ==
    Only({ IF FitsU64(sum) THEN Some(sum) ELSE None :
             sum \in { WideAdd(a, b) } })

\* get_epoch_total_credits_for_distribution on u64 credits; a missing epoch
\* or a missing processing item is the error of the getter that reads it
get_epoch_total_credits_for_distribution_u64(st, epoch_index) ==
    IF ~EpochExists(st, epoch_index) \/ epoch_index \notin DOMAIN st.cur
    THEN [ result |-> "GroveDB", v |-> None ]
    ELSE Only({ IF total = None THEN [ result |-> "Overflow", v |-> None ]
                ELSE [ result |-> "Ok", v |-> total ] :
                  total \in { u64_checked_add(st.storage[epoch_index],
                                              st.cur[epoch_index].p) } })

\* credit amounts: nothing, the two amounts of
\* test_get_epoch_total_credits_for_distribution, 2^63 - 1 and 2^63 (their
\* sum is u64::MAX, twice the second is 2^64), u64::MAX - 42 and u64::MAX
WideCreditValues ==
    { Wide(0), Wide(42), Wide(1000),
      WideDiv(u64_MAX, 2), WideAdd(WideDiv(u64_MAX, 2), Wide(1)),
      WideSub(u64_MAX, Wide(42)), u64_MAX }

\* the epoch whose credits are read
TotalEpoch == 0

\* update_storage_credits_for_distribution_operation applied in a batch
UpdateStorageCreditsU64(v) ==
    /\ \E r \in { grove_apply_batch(store,
                    << OpStorageMany([ j \in { TotalEpoch } |-> v ]) >>) } :
           /\ store' = r.st
           /\ response' = [ op |-> "update_storage_credits_for_distribution",
                            result |-> r.result ]
    /\ UNCHANGED << twin, committed, cache_genesis_time_ms, block_execution_context,
                    replaced_context, context_genesis_time, calls >>

\* update_processing_credits_for_distribution_operation applied in a batch
UpdateProcessingCreditsU64(v) ==
    /\ \E r \in { grove_apply_batch(store,
                    << OpCur(TotalEpoch,
                             [ store.cur[TotalEpoch] EXCEPT !.p = v ]) >>) } :
           /\ store' = r.st
           /\ response' = [ op |-> "update_processing_credits_for_distribution",
                            result |-> r.result ]
    /\ UNCHANGED << twin, committed, cache_genesis_time_ms, block_execution_context,
                    replaced_context, context_genesis_time, calls >>

GetEpochTotalCreditsU64 ==
    /\ \E r \in { get_epoch_total_credits_for_distribution_u64(store,
                                                                TotalEpoch) } :
           response' = [ op |-> "get_epoch_total_credits_for_distribution",
                         result |-> r.result, v |-> r.v ]
    /\ UNCHANGED << store, twin, committed, cache_genesis_time_ms,
                    block_execution_context, replaced_context,
                    context_genesis_time, calls >>

\* the store of test_get_epoch_total_credits_for_distribution before its
\* two updates: the initial structure with epoch 0 started
InitTotal ==
    /\ store = [ EmptyStore EXCEPT
                   !.pools = TRUE,
                   !.s = Wide(0),
                   !.storage = [ j \in { TotalEpoch } |-> Wide(0) ],
                   !.cur = [ j \in { TotalEpoch } |->
                               [ InitCurrent(1, 1, 0) EXCEPT !.p = Wide(0) ] ] ]
    /\ committed = EmptyStore
    /\ twin = NoTwin
    /\ cache_genesis_time_ms = None
    /\ block_execution_context = None
    /\ response = [ op |-> "none", result |-> "Ok" ]
    /\ replaced_context = None
    /\ context_genesis_time = None
    /\ calls = 0

NextTotal ==
    \/ \E v \in WideCreditValues : UpdateStorageCreditsU64(v)
    \/ \E v \in WideCreditValues : UpdateProcessingCreditsU64(v)
    \/ GetEpochTotalCreditsU64

SpecTotal == InitTotal /\ [][NextTotal]_vars

GotEpochTotal == response.op = "get_epoch_total_credits_for_distribution"

\* C34: get_epoch_total_credits_for_distribution.  The getter fails with
\* Overflow exactly when the processing credits exceed what is left of
\* u64::MAX above the storage credits; otherwise it succeeds with a u64
\* value that exceeds the storage credits by exactly the processing
\* credits.
C34_TotalIsSumOrOverflow ==
    GotEpochTotal =>
      LET storage_credits == store.storage[TotalEpoch]
          processing_credits == store.cur[TotalEpoch].p
      IN  IF WideLess(WideSub(u64_MAX, storage_credits), processing_credits)
          THEN response.result = "Overflow" /\ response.v = None
          ELSE /\ response.result = "Ok"
               /\ FitsU64(Unwrap(response.v))
               /\ ~WideLess(Unwrap(response.v), storage_credits)
               /\ WideSub(Unwrap(response.v), storage_credits)
                    = processing_credits

\* the getter overflowed on 2^63 + 2^63
C34_Witness ==
    /\ GotEpochTotal
    /\ response.result = "Overflow"
    /\ store.storage[TotalEpoch] = WideAdd(WideDiv(u64_MAX, 2), Wide(1))
    /\ store.cur[TotalEpoch].p = store.storage[TotalEpoch]

\* the getter returned 1042 on the credits of
\* test_get_epoch_total_credits_for_distribution
C34_WitnessSum ==
    /\ GotEpochTotal
    /\ response.result = "Ok"
    /\ store.storage[TotalEpoch] = Wide(1000)
    /\ store.cur[TotalEpoch].p = Wide(42)
    /\ response.v = Some(Wide(1042))

(***************************************************************************)
(* The addition storage_fee + epoch_fee_share of the distribution is a     *)
(* plain u64 addition: where the sum exceeds u64::MAX a build with         *)
(* overflow checks panics and a build without them wraps the sum modulo    *)
(* 2^64.  Both outcomes are kept.                                          *)
(***************************************************************************)
\* the sum a + b of two u64 values as a u64 of a build without overflow
\* checks
u64_wrapped(sum) ==
    IF FitsU64(sum) THEN sum ELSE WideSub(sum, u64_MODULUS)

\* some target epoch's credits plus its share exceed u64::MAX
AdditionOverflows(st, epoch_index) ==
    \E d \in { distribute_storage_fee_distribution_pool_u64(st, epoch_index) } :
        /\ d.result = "Ok"
        /\ d.ops # << >>
        /\ \E j \in DOMAIN d.ops[1].upd : ~FitsU64(d.ops[1].upd[j])

\* the outcomes of distribute_storage_fee_distribution_pool_to_epochs_operations
\* over the builds: the one outcome of the exact computation where no
\* addition overflows, a panic or the wrapped sums where one does
distribute_storage_fee_distribution_pool_builds(st, epoch_index) ==
    LET d == distribute_storage_fee_distribution_pool_u64(st, epoch_index)
    IN  IF ~AdditionOverflows(st, epoch_index) THEN { d }
        ELSE { [ result |-> "panic", ops |-> << >> ],
               [ result |-> "Ok",
                 ops |-> << OpStorageMany(
                              [ j \in DOMAIN d.ops[1].upd |->
                                  u64_wrapped(d.ops[1].upd[j]) ]),
                            d.ops[2] >> ] }

\* storage credits an epoch holds before a distribution: nothing, one less
\* than u64::MAX and u64::MAX
WideEpochCreditValues == { Wide(0), WideSub(u64_MAX, Wide(1)), u64_MAX }

\* the epochs whose credits are set: the first target of the distribution
CreditedEpochs == { 0 }

\* update_storage_credits_for_distribution_operation applied in a batch
UpdateEpochCreditsU64(j, v) ==
    /\ \E r \in { grove_apply_batch(store,
                    << OpStorageMany([ k \in { j } |-> v ]) >>) } :
           /\ store' = r.st
           /\ response' = [ op |-> "update_storage_credits_for_distribution",
                            result |-> r.result ]
    /\ UNCHANGED << twin, committed, cache_genesis_time_ms, block_execution_context,
                    replaced_context, context_genesis_time, calls >>

DistributeStoragePoolBuilds ==
    /\ calls < MaxDistributions
    /\ calls' = calls + 1
    /\ \E d \in distribute_storage_fee_distribution_pool_builds(store, 0) :
         \E r \in { IF d.result = "Ok" THEN grove_apply_batch(store, d.ops)
                    ELSE [ result |-> d.result, st |-> store ] } :
           /\ store' = r.st
           /\ response' = [ op |-> "distribute_storage_fee_distribution_pool",
                            result |-> r.result,
                            epoch_index |-> 0,
                            pool_before |-> store.s ]
    /\ UNCHANGED << twin, committed, cache_genesis_time_ms, block_execution_context,
                    replaced_context, context_genesis_time >>

NextBuilds ==
    \/ \E P \in WidePoolValues : UpdatePoolU64(P)
    \/ \E j \in CreditedEpochs : \E v \in WideEpochCreditValues :
         UpdateEpochCreditsU64(j, v)
    \/ DistributeStoragePoolBuilds

SpecBuilds == InitU64 /\ [][NextBuilds]_vars

\* C35: overflow of an epoch's credits.  A distribution in which some
\* epoch's credits plus its share exceed u64::MAX fails with Overflow and
\* changes no epoch and no pool value.
C35_OverflowFailsDistribution ==
    [][ (/\ response'.op = "distribute_storage_fee_distribution_pool"
         /\ calls' = calls + 1
         /\ AdditionOverflows(store, 0))
        => /\ response'.result = "Overflow"
           /\ store' = store ]_vars

\* a distribution of the pool 1000 succeeded on an epoch 0 that held
\* u64::MAX credits and left it with 1 credit (u64::MAX + 2 modulo 2^64)
C35_WrappedCredits ==
    /\ response.op = "distribute_storage_fee_distribution_pool"
    /\ response.result = "Ok"
    /\ response.pool_before = Wide(1000)
    /\ store.storage[0] = Wide(1)
    /\ store.storage[1] = Wide(2)

\* the number of epochs between the block before the one in the context and
\* the block in the context
EpochsAdvanced(context, genesis) ==
    IF context.block_info.previous_block_time_ms = None THEN 0
    ELSE context.epoch_info.current_epoch_index
           - ((Unwrap(context.block_info.previous_block_time_ms) - genesis)
                \div EpochLen)

\* C36: skipped epochs.  block_end succeeds on a block whose time is more
\* than one epoch after the time of the block before it: no target epoch
\* of the storage distribution is missing.
C36_EpochSkipSucceeds ==
    (/\ response.op = "block_end"
     /\ block_execution_context # None
     /\ store.g # None
     /\ EpochsAdvanced(Unwrap(block_execution_context), Unwrap(store.g)) > 1)
    => response.result = "Ok"

\* block_end of a block two epochs after the block before it succeeded
C36_SkipOfTwo ==
    /\ response.op = "block_end"
    /\ response.result = "Ok"
    /\ block_execution_context # None
    /\ store.g # None
    /\ EpochsAdvanced(Unwrap(block_execution_context), Unwrap(store.g)) = 2

(***************************************************************************)
(* Epoch indices at the width of the code: an epoch index is a u16, and    *)
(* current index + 1000, epoch_index + year * 20 and                       *)
(* starting_epoch_index + 20 are plain u16 additions.  Where a sum exceeds *)
(* u16::MAX a build with overflow checks panics and a build without them   *)
(* wraps it modulo 2^16.  Both outcomes are kept.                          *)
(***************************************************************************)
u16_MAX == 65535

u16_wrapped(n) == n % (u16_MAX + 1)

\* the range starting_epoch_index .. starting_epoch_index + 20 of one year
\* in a build without overflow checks; the range is empty when its end
\* wraps below its start
TargetsOfYear(epoch_index, year) ==
    Only({ s .. (u16_wrapped(s + EPOCHS_PER_YEAR) - 1) :
             s \in { u16_wrapped(epoch_index + year * EPOCHS_PER_YEAR) } })

WrappedTargets(epoch_index) ==
    UNION { TargetsOfYear(epoch_index, year) :
              year \in 0 .. (DISTRIBUTION_YEARS - 1) }

\* the buffer after the years year..49 have been withdrawn from it, one
\* epoch share for every index of the year's range
RECURSIVE WrappedBufferAfterYears(_, _, _, _)
WrappedBufferAfterYears(P, epoch_index, buffer, year) ==
    IF year = DISTRIBUTION_YEARS THEN buffer
    ELSE WrappedBufferAfterYears(
             P, epoch_index,
             buffer - Cardinality(TargetsOfYear(epoch_index, year))
                        * EpochFeeShare(P, year),
             year + 1)

\* the distribution in a build without overflow checks
distribute_storage_fee_distribution_pool_wrapping(st, epoch_index) ==
    LET P == st.s
        targets == WrappedTargets(epoch_index)
    IN  IF ~st.pools THEN [ result |-> "PathNotFound", ops |-> << >> ]
        ELSE IF P = 0 THEN [ result |-> "Ok", ops |-> << >> ]
        ELSE IF ~(targets \subseteq DOMAIN st.storage)
             THEN [ result |-> "PathKeyNotFound", ops |-> << >> ]
        ELSE Only({
          IF buffer < 0
          THEN [ result |-> "CorruptedStorageFeePoolInvalidItemLength",
                 ops |-> << >> ]
          ELSE [ result |-> "Ok",
                 ops |-> << OpStorageMany(
                              [ j \in targets |->
                                  st.storage[j]
                                  + EpochFeeShare(P,
                                      CHOOSE year \in 0 .. (DISTRIBUTION_YEARS - 1) :
                                        j \in TargetsOfYear(epoch_index, year)) ]),
                            OpPool(buffer) >> ] :
            buffer \in { WrappedBufferAfterYears(P, epoch_index, P, 0) } })

\* the first year whose range does not end within u16, 50 if there is none
FirstOverflowingYear(epoch_index) ==
    Only({ IF S = {} THEN DISTRIBUTION_YEARS
           ELSE CHOOSE year \in S : \A other \in S : year <= other :
             S \in { { year \in 0 .. (DISTRIBUTION_YEARS - 1) :
                         epoch_index + (year + 1) * EPOCHS_PER_YEAR > u16_MAX } } })

\* the distribution in a build with overflow checks: the addition of the
\* first overflowing year panics unless the read of an earlier target has
\* failed before
distribute_storage_fee_distribution_pool_checking(st, epoch_index) ==
    LET year == FirstOverflowingYear(epoch_index)
        before == epoch_index .. (epoch_index + year * EPOCHS_PER_YEAR - 1)
    IN  IF ~st.pools \/ st.s = 0 \/ year = DISTRIBUTION_YEARS
        THEN distribute_storage_fee_distribution_pool_to_epochs_operations(
                 st, epoch_index)
        ELSE IF ~(before \subseteq DOMAIN st.storage)
             THEN [ result |-> "PathKeyNotFound", ops |-> << >> ]
        ELSE [ result |-> "panic", ops |-> << >> ]

\* the outcomes of the distribution over the builds
distribute_storage_fee_distribution_pool_u16(st, epoch_index) ==
    { distribute_storage_fee_distribution_pool_checking(st, epoch_index),
      distribute_storage_fee_distribution_pool_wrapping(st, epoch_index) }

\* the outcomes of shift_current_epoch_pool over the builds: the index of
\* the epoch it creates and its operations
shift_current_epoch_pool_u16(index, start_height, start_time, fee_multiplier) ==
    IF index + EPOCHS_AHEAD <= u16_MAX
    THEN { [ result |-> "Ok", created |-> Some(index + EPOCHS_AHEAD),
             ops |-> shift_current_epoch_pool(index, start_height, start_time,
                                              fee_multiplier) ] }
    ELSE { [ result |-> "panic", created |-> None, ops |-> << >> ],
           [ result |-> "Ok",
             created |-> Some(u16_wrapped(index + EPOCHS_AHEAD)),
             ops |-> << OpInitEmpty({ u16_wrapped(index + EPOCHS_AHEAD) }),
                        OpCur(index, InitCurrent(fee_multiplier, start_height,
                                                 start_time)) >> ] }

\* epoch indices: the first epochs, the last one whose 1000 targets all
\* fit, the first one whose index + 1000 does not, one whose first year
\* ends at 2^16, and the last one
IndexValues == { 1, 64535, 64536, 65516, u16_MAX }

\* the epochs of the first years of the chain that were never paid out, and
\* the epochs up to the last index
LowEpochs == 0 .. (EPOCHS_AHEAD + EPOCHS_PER_YEAR - 1)

HighEpochs == (u16_MAX - EPOCHS_AHEAD - EPOCHS_PER_YEAR + 1) .. u16_MAX

IndexPoolValues == { 0, 1000, 400000 }

DistributeAtIndex(epoch_index) ==
    /\ calls < MaxDistributions
    /\ calls' = calls + 1
    /\ \E d \in distribute_storage_fee_distribution_pool_u16(store, epoch_index) :
         \E r \in { IF d.result = "Ok" THEN grove_apply_batch(store, d.ops)
                    ELSE [ result |-> d.result, st |-> store ] } :
           /\ store' = r.st
           /\ response' = [ op |-> "distribute_storage_fee_distribution_pool",
                            result |-> r.result,
                            epoch_index |-> epoch_index,
                            pool_before |-> store.s,
                            created |-> None ]
    /\ UNCHANGED << twin, committed, cache_genesis_time_ms, block_execution_context,
                    replaced_context, context_genesis_time >>

ShiftAtIndex(index) ==
    /\ calls < MaxDistributions
    /\ calls' = calls + 1
    /\ \E d \in shift_current_epoch_pool_u16(index, 1, 0, 1) :
         \E r \in { IF d.result = "Ok" THEN grove_apply_batch(store, d.ops)
                    ELSE [ result |-> d.result, st |-> store ] } :
           /\ store' = r.st
           /\ response' = [ op |-> "shift_current_epoch_pool",
                            result |-> r.result,
                            epoch_index |-> index,
                            pool_before |-> store.s,
                            created |-> IF r.result = "Ok" THEN d.created
                                        ELSE None ]
    /\ UNCHANGED << twin, committed, cache_genesis_time_ms, block_execution_context,
                    replaced_context, context_genesis_time >>

\* a chain late in the index range: the pools exist, the epochs up to the
\* last index exist, and the epochs of the first years exist or were paid
\* out and deleted
InitIndex ==
    /\ \E low \in { {}, LowEpochs } :
         store = [ EmptyStore EXCEPT
                     !.pools = TRUE,
                     !.s = 400000,
                     !.storage = [ j \in low \cup HighEpochs |-> 0 ] ]
    /\ committed = EmptyStore
    /\ twin = NoTwin
    /\ cache_genesis_time_ms = None
    /\ block_execution_context = None
    /\ response = [ op |-> "none", result |-> "Ok" ]
    /\ replaced_context = None
    /\ context_genesis_time = None
    /\ calls = 0

NextIndex ==
    \/ \E P \in IndexPoolValues : RefillPool(P)
    \/ \E epoch_index \in IndexValues : DistributeAtIndex(epoch_index)
    \/ \E index \in IndexValues : ShiftAtIndex(index)

SpecIndex == InitIndex /\ [][NextIndex]_vars

\* C37: no 16-bit wrap-around.  A distribution for the epoch index i
\* changes the storage credits of no epoch below i, and a shift at the
\* current index i creates no epoch below i.
C37_NoEpochBelowIndex ==
    [][ (/\ calls' = calls + 1
         /\ response'.op \in { "distribute_storage_fee_distribution_pool",
                               "shift_current_epoch_pool" })
        => /\ \A j \in DOMAIN store.storage :
                j < response'.epoch_index
                  => /\ j \in DOMAIN store'.storage
                     /\ store'.storage[j] = store.storage[j]
           /\ response'.created # None
                => Unwrap(response'.created) >= response'.epoch_index ]_vars

\* the distribution for the epoch index 65516 succeeded and credited
\* epoch 0 with the share of year 1
C37_CreditedEpochZero ==
    /\ response.op = "distribute_storage_fee_distribution_pool"
    /\ response.result = "Ok"
    /\ response.epoch_index = 65516
    /\ response.pool_before = 400000
    /\ store.storage[0] = EpochFeeShare(400000, 1)
    /\ store.storage[65516] = 0

\* the shift at the current index 64536 created epoch 0 again
C37_RecreatedEpochZero ==
    /\ response.op = "shift_current_epoch_pool"
    /\ response.result = "Ok"
    /\ response.epoch_index = 64536
    /\ response.created = Some(0)

(***************************************************************************)
(* Blocks without refunds: the host of SpecHost calling block_begin and    *)
(* block_end in any order, the blocks one day, twenty days or forty days   *)
(* apart (a forty-day step passes over an epoch).                          *)
(***************************************************************************)
PlainSteps == { 1, 20, 40 }

PlainFees ==
    [ processing_fees |-> 1600, storage_fees |-> 42000, fee_multiplier |-> 1,
      refunds_by_epoch |-> << >> ]

PlainBlockBegin(step) ==
    /\ HostCalled
    /\ BlockBeginHandled(WalkRequest(block_execution_context, step))
    /\ UNCHANGED twin

PlainBlockEnd ==
    /\ HostCalled
    /\ BlockEndHandled([ fees |-> PlainFees ])
    /\ UNCHANGED twin

NextPlain ==
    \/ \E step \in PlainSteps : PlainBlockBegin(step)
    \/ PlainBlockEnd

SpecPlain == InitHost /\ [][NextPlain]_vars

\* the storage credits of the epoch j of a store, 0 for an epoch that does
\* not exist
StorageCreditsOrZero(st, j) ==
    IF j \in DOMAIN st.storage THEN st.storage[j] ELSE 0

\* what the step adds to the sum of the pool and of all epochs' storage
\* credits
StorageCreditsAddedByStep ==
    Only({ (store'.s - store.s)
           + SumRange([ j \in 0 .. hi |->
                          StorageCreditsOrZero(store', j)
                          - StorageCreditsOrZero(store, j) ], 0, hi) :
             hi \in { SetMax(DOMAIN store.storage \cup DOMAIN store'.storage) } })

\* the storage credits the epoch paid by the step held when it was paid
PaidEpochStorageCredits ==
    IF PaysEpoch
    THEN PayoutStore.storage[Unwrap(Unwrap(response'.response).paid_epoch_index)]
    ELSE 0

\* the step is a successful block_end of an epoch-change block without
\* refunds
EpochChangeBlockWithoutRefunds ==
    /\ response'.op = "block_end"
    /\ response'.result = "Ok"
    /\ response'.request.fees.refunds_by_epoch = << >>
    /\ Unwrap(block_execution_context).epoch_info.is_epoch_change

\* C38: storage credits are conserved.  A successful block_end of an
\* epoch-change block without refunds changes the sum of the pool and of
\* all epochs' storage credits by the block's storage_fees less the
\* storage credits of the epoch it pays.
C38_StorageCreditsConserved ==
    [][ EpochChangeBlockWithoutRefunds
        => StorageCreditsAddedByStep
             = response'.request.fees.storage_fees - PaidEpochStorageCredits ]_vars

\* the block that started epoch 1 has distributed the pool of 42000, paid
\* epoch 0 with the 105 storage credits the distribution gave it, and left
\* the residue 490 and the block's storage fees in the pool
C38_Witness ==
    /\ response.op = "block_end"
    /\ response.result = "Ok"
    /\ Unwrap(response.response).current_epoch_index = 1
    /\ Unwrap(response.response).is_epoch_change
    /\ Unwrap(response.response).paid_epoch_index = Some(0)
    /\ ~EpochExists(store, 0)
    /\ store.storage[1] = EpochFeeShare(42000, 0)
    /\ store.s > 42000

\* C39: no stranded storage credits.  After a successful block_end of an
\* epoch-change block every epoch older than the current one is deleted or
\* holds no storage credits.
C39_NoStrandedCredits ==
    (/\ response.op = "block_end"
     /\ response.result = "Ok"
     /\ Unwrap(response.response).is_epoch_change)
    => \A j \in DOMAIN store.storage :
          j < Unwrap(response.response).current_epoch_index
            => store.storage[j] = 0

\* the block that started epoch 2 forty days after the height-1 block has
\* paid epoch 0; epoch 1, into which no block fell, holds the share the
\* distribution of this block gave it and has no proposers to be paid
C39_StrandedEpoch ==
    /\ response.op = "block_end"
    /\ response.result = "Ok"
    /\ Unwrap(response.response).is_epoch_change
    /\ Unwrap(response.response).current_epoch_index = 2
    /\ Unwrap(response.response).paid_epoch_index = Some(0)
    /\ EpochExists(store, 1)
    /\ 1 \notin DOMAIN store.cur
    /\ store.storage[1] = EpochFeeShare(42000, 0)

\* the step is a block_end on a context whose block changes the epoch
EpochChangeBlockEnd ==
    /\ response'.op = "block_end"
    /\ calls' = calls + 1
    /\ block_execution_context # None
    /\ Unwrap(block_execution_context).epoch_info.is_epoch_change

\* C40: the payout on the epoch-change block.  A block_end of the block
\* that changes the epoch to i does not fail with UnexpectedMissingStart;
\* where it pays an epoch p that holds credits, the next start block
\* height the payout finds after p is the height of this block, and the
\* balances it leaves are those of a payout over the epoch length
\* L = block height - start_height(p).
C40_PayoutSeesNewStartHeight ==
    [][ EpochChangeBlockEnd
        => /\ response'.result # "UnexpectedMissingStart"
           /\ PaysEpoch =>
                \A s1 \in { PayoutStore } :
                  \A context \in { Unwrap(block_execution_context) } :
                    \A p \in { Unwrap(Unwrap(response'.response).paid_epoch_index) } :
                      (s1.storage[p] + s1.cur[p].p > 0)
                      => /\ find_next_epoch_stat_block_height(
                                s1, p, context.epoch_info.current_epoch_index)
                              # None
                         /\ Unwrap(find_next_epoch_stat_block_height(
                                s1, p, context.epoch_info.current_epoch_index))[2]
                              = context.block_info.block_height
                         /\ store'.balances =
                              pay_proposers(
                                  s1.balances, s1.cur[p].r,
                                  { h \in Proposers : s1.cur[p].r[h] > 0 },
                                  s1.storage[p] + s1.cur[p].p,
                                  context.block_info.block_height - s1.cur[p].c) ]_vars

\* the block of height 3 started epoch 1 and paid epoch 0, which had
\* started at height 1, over its two blocks
C40_Witness ==
    /\ response.op = "block_end"
    /\ response.result = "Ok"
    /\ Unwrap(response.response).is_epoch_change
    /\ Unwrap(response.response).current_epoch_index = 1
    /\ Unwrap(response.response).paid_epoch_index = Some(0)
    /\ Unwrap(response.response).masternodes_paid_count = 2
    /\ Unwrap(block_execution_context).block_info.block_height = 3
    /\ store.cur[1].c = 3
    /\ store.balances[2] > 0
====
